---- MODULE Spec2Model ----
(***************************************************************************)
(* Model of the pgmq-rs SQL installer (src/pgmq-rs/src/install): version   *)
(* parsing and ordering, discovery of the migration scripts, the planner   *)
(* (get_scripts_internal), and install_sql run by several processes        *)
(* against one PostgreSQL database; and of the creation of queues          *)
(* (src/pgmq-rs/src/pg_ext.rs).                                            *)
(***************************************************************************)
EXTENDS Integers, Sequences, FiniteSets, TLC

(***************************************************************************)
(* Bounds of the model.                                                    *)
(***************************************************************************)
\* number of processes that call install_sql against the database
NumProcs == 2
\* number of install_sql calls made in all at most
MaxCalls == 2
\* number of upgrade scripts in an installer's embedded directory at most
MaxCatalog == 1
\* number of statements in the content of a migration script
StmtsPerScript == 2
\* planner harness: number of upgrade scripts in the directory at most
MaxPlanCatalog == 2
\* planner harness: number of rows in the applied list at most
MaxApplied == 2
\* number of clients that create queues
NumClients == 2

Procs == 1..NumProcs
NoProc == 0

(***************************************************************************)
(* version.rs: Version, its order, its text form.                          *)
(***************************************************************************)
\* u32::MAX, 4294967295, as its decimal digits
U32MaxDigits == <<4, 2, 9, 4, 9, 6, 7, 2, 9, 5>>

Version(ma, mi, pa) == [major |-> ma, minor |-> mi, patch |-> pa]

DigitChars == <<"0", "1", "2", "3", "4", "5", "6", "7", "8", "9">>
IsDigit(c) == \E d \in 1..10 : DigitChars[d] = c
DigitVal(c) == (CHOOSE d \in 1..10 : DigitChars[d] = c) - 1

\* decimal rendering of a u32, as a sequence of characters
RECURSIVE Digits(_)
Digits(n) == IF n < 10 THEN <<DigitChars[n + 1]>>
             ELSE Digits(n \div 10) \o <<DigitChars[(n % 10) + 1]>>

\* u32::cmp
CmpNat(a, b) == IF a < b THEN "Less" ELSE IF a > b THEN "Greater" ELSE "Equal"

\* variant: the versions are compared as their texts are, character by character
VersionCmpText(a, b) ==
    LET Code(c) == IF c = "." THEN 0 ELSE (CHOOSE d \in 1..10 : DigitChars[d] = c)
        s == Digits(a.major) \o <<".">> \o Digits(a.minor) \o <<".">> \o Digits(a.patch)
        t == Digits(b.major) \o <<".">> \o Digits(b.minor) \o <<".">> \o Digits(b.patch)
        n == IF Len(s) < Len(t) THEN Len(s) ELSE Len(t)
        diff == {i \in 1..n : s[i] # t[i]}
    IN  IF diff = {} THEN CmpNat(Len(s), Len(t))
        ELSE LET i == CHOOSE k \in diff : \A j \in diff : k <= j
             IN  CmpNat(Code(s[i]), Code(t[i]))

\* impl Ord for Version: major, then minor, then patch
VersionCmp(a, b) ==
    IF CmpNat(a.major, b.major) # "Equal" THEN CmpNat(a.major, b.major)
    ELSE IF CmpNat(a.minor, b.minor) # "Equal" THEN CmpNat(a.minor, b.minor)
    ELSE CmpNat(a.patch, b.patch)

VersionGe(a, b) == VersionCmp(a, b) # "Less"
VersionLt(a, b) == VersionCmp(a, b) = "Less"

\* Iterator::max over versions (the set is not empty)
MaxVersion(S) == CHOOSE v \in S : \A w \in S : VersionGe(v, w)

\* variant: the minor and patch arguments of the format are exchanged
to_string_swapped(v) ==
    Digits(v.major) \o <<".">> \o Digits(v.patch) \o <<".">> \o Digits(v.minor)

\* impl Display for Version: "{}.{}.{}"
to_string(v) == Digits(v.major) \o <<".">> \o Digits(v.minor) \o <<".">> \o Digits(v.patch)

\* the value of the first n of the decimal digits s
RECURSIVE DigitsValTo(_, _)
DigitsValTo(s, n) == IF n = 0 THEN 0 ELSE 10 * DigitsValTo(s, n - 1) + DigitVal(s[n])

DigitsVal(s) == DigitsValTo(s, Len(s))

IsDigits(s) == Len(s) > 0 /\ \A i \in 1..Len(s) : IsDigit(s[i])

\* the number of leading zeros of the digits s
LeadingZeros(s) == Cardinality({i \in 1..Len(s) : \A j \in 1..i : s[j] = "0"})

\* u32::from_str accepts the digits s: their value is at most u32::MAX
FitsU32(s) ==
    LET z == IF LeadingZeros(s) = Len(s) THEN Len(s) - 1 ELSE LeadingZeros(s)
        n == Len(s) - z
    IN  \/ n < 10
        \/ /\ n = 10
           /\ \/ \A i \in 1..10 : DigitVal(s[z + i]) = U32MaxDigits[i]
              \/ \E i \in 1..10 : /\ DigitVal(s[z + i]) < U32MaxDigits[i]
                                  /\ \A j \in 1..(i - 1) : DigitVal(s[z + j]) = U32MaxDigits[j]

\* evaluates x once and applies Op to its value
Once(Op(_), x) == CHOOSE r \in {Op(v) : v \in {x}} : TRUE

ParseErr == [ok |-> FALSE]

\* the positions of the dots of s
Dots(s) == {i \in 1..Len(s) : s[i] = "."}

\* the three captures of the version regex, each parsed by u32::from_str
ParseSegments(seg) ==
    IF \A i \in 1..3 : IsDigits(seg[i]) /\ FitsU32(seg[i])
    THEN [ok |-> TRUE,
          v |-> Version(DigitsVal(seg[1]), DigitsVal(seg[2]), DigitsVal(seg[3]))]
    ELSE ParseErr

\* variant: the regex is ^(\d*)\.(\d*)\.(\d*)$, and an empty segment counts as 0
from_str_empty_segments(s) ==
    LET Split(d) == <<SubSeq(s, 1, d[1] - 1), SubSeq(s, d[1] + 1, d[2] - 1),
                      SubSeq(s, d[2] + 1, Len(s))>>
        MinMax(D) == <<CHOOSE i \in D : \A j \in D : i <= j,
                       CHOOSE i \in D : \A j \in D : i >= j>>
        Zero(seg) == [i \in 1..3 |-> IF seg[i] = <<>> THEN <<"0">> ELSE seg[i]]
    IN  IF Cardinality(Dots(s)) = 2
        THEN Once(ParseSegments, Once(Zero, Once(Split, MinMax(Dots(s)))))
        ELSE ParseErr

\* impl FromStr for Version: ^(\d+)\.(\d+)\.(\d+)$ and u32::from_str of each segment
from_str(s) ==
    LET Split(d) == <<SubSeq(s, 1, d[1] - 1), SubSeq(s, d[1] + 1, d[2] - 1),
                      SubSeq(s, d[2] + 1, Len(s))>>
        MinMax(D) == <<CHOOSE i \in D : \A j \in D : i <= j,
                       CHOOSE i \in D : \A j \in D : i >= j>>
    IN  IF Cardinality(Dots(s)) = 2
        THEN Once(ParseSegments, Once(Split, MinMax(Dots(s))))
        ELSE ParseErr

\* s has the text t at position i
HasAt(s, t, i) == i >= 1 /\ i + Len(t) - 1 <= Len(s) /\ \A j \in 1..Len(t) : s[i + j - 1] = t[j]

\* the white space of the texts: char::is_whitespace and the regex class \s
IsSpace(c) == c \in {" ", "\t", "\r"}

\* str::lines from position i: the text is split at each line feed, a carriage
\* return before the line feed goes with it, and the last line needs no line feed
RECURSIVE LinesFrom(_, _)
LinesFrom(t, i) ==
    IF i > Len(t) THEN <<>>
    ELSE LET B    == {j \in i..Len(t) : t[j] = "\n"}
             e    == IF B = {} THEN Len(t) + 1 ELSE CHOOSE j \in B : \A k \in B : j <= k
             cr   == B # {} /\ e > i /\ t[e - 1] = "\r"
         IN  <<SubSeq(t, i, IF cr THEN e - 2 ELSE e - 1)>> \o LinesFrom(t, e + 1)

lines(t) == LinesFrom(t, 1)

\* the first position from i on of the line that holds no white space
SkipSpaces(line, i) ==
    CHOOSE k \in i..(Len(line) + 1) :
        /\ \A j \in i..(k - 1) : IsSpace(line[j])
        /\ k <= Len(line) => ~ IsSpace(line[k])

DefaultVersionKey ==
    <<"d", "e", "f", "a", "u", "l", "t", "_", "v", "e", "r", "s", "i", "o", "n">>

\* line.trim_start().starts_with("default_version")
IsVersionLine(line) == HasAt(line, DefaultVersionKey, SkipSpaces(line, 1))

VersionErr(error) == [ok |-> FALSE, error |-> error]

\* variant: the quotes around the value are optional
ExtractVersionUnquoted(line) ==
    LET eq    == SkipSpaces(line, SkipSpaces(line, 1) + Len(DefaultVersionKey))
        val   == SkipSpaces(line, eq + 1)
        open  == IF HasAt(line, <<"'">>, val) THEN val ELSE val - 1
        last  == CHOOSE k \in 0..Len(line) :
                     /\ \A j \in (k + 1)..Len(line) : IsSpace(line[j])
                     /\ k >= 1 => ~ IsSpace(line[k])
        close == IF last >= 1 /\ line[last] = "'" THEN last ELSE last + 1
    IN  IF HasAt(line, <<"=">>, eq) /\ close > open
        THEN LET parsed == from_str(SubSeq(line, open + 1, close - 1))
             IN  IF parsed.ok THEN parsed ELSE VersionErr("Invalid version")
        ELSE VersionErr("Unable to extract version from extension config")

\* the regex ^\s*default_version\s*=\s*'(?<version>.*)'\s*$ on a version line,
\* and Version::from_str of its capture: the capture ends at the quote that
\* only white space follows
ExtractVersion(line) ==
    LET eq     == SkipSpaces(line, SkipSpaces(line, 1) + Len(DefaultVersionKey))
        open   == SkipSpaces(line, eq + 1)
        Closes == {k \in (open + 1)..Len(line) :
                      line[k] = "'" /\ \A j \in (k + 1)..Len(line) : IsSpace(line[j])}
    IN  IF HasAt(line, <<"=">>, eq) /\ HasAt(line, <<"'">>, open) /\ Closes # {}
        THEN LET parsed == from_str(SubSeq(line, open + 1, (CHOOSE k \in Closes : TRUE) - 1))
             IN  IF parsed.ok THEN parsed ELSE VersionErr("Invalid version")
        ELSE VersionErr("Unable to extract version from extension config")

\* Version::get_pgmq_version_from_contents
get_pgmq_version_from_contents(extension_config) ==
    LET ls    == lines(extension_config)
        Found == {i \in 1..Len(ls) : IsVersionLine(ls[i])}
    IN  IF Found = {}
        THEN VersionErr("Version is not present in extension config")
        ELSE ExtractVersion(ls[CHOOSE i \in Found : \A j \in Found : i <= j])

(***************************************************************************)
(* script.rs: script names, discovery, the planner.                        *)
(* A file name is the sequence of its characters; a directory is the       *)
(* sequence of its files [name, utf8, content]; the content of a readable  *)
(* file is the sequence of its statements.                                 *)
(***************************************************************************)
INIT_SCRIPT_NAME == <<"p", "g", "m", "q", ".", "s", "q", "l">>

\* the literal parts of the name of an upgrade script
NamePrefix == <<"p", "g", "m", "q", "-", "-">>
NameSeparator == <<"-", "-">>
NameSuffix == <<".", "s", "q", "l">>

\* the name of the upgrade script from one version to another
ScriptFileName(from, to) ==
    NamePrefix \o to_string(from) \o NameSeparator \o to_string(to) \o NameSuffix

File(name, utf8) == [name |-> name, utf8 |-> utf8,
                     content |-> [i \in 1..StmtsPerScript |-> i]]

\* the places where the "--" between the two captures of the name regex can
\* stand: after the prefix, and with one character and "sql" left behind the
\* second capture
SeparatorPlaces(name) ==
    {k \in (Len(NamePrefix) + 1)..(Len(name) - 5) : HasAt(name, NameSeparator, k)}

\* the two captures of the name regex when the "--" between them is at k
Captures(name, k) ==
    [name |-> name,
     from |-> SubSeq(name, Len(NamePrefix) + 1, k - 1),
     to   |-> SubSeq(name, k + 2, Len(name) - 4)]

\* variant: the regex is ^pgmq--(?<from>.*)--(?<to>.*)\.sql$, its dot escaped
NameMatchesEscaped(name) ==
    /\ HasAt(name, NamePrefix, 1)
    /\ HasAt(name, NameSuffix, Len(name) - 3)

\* the name matches ^pgmq--(?<from>.*)--(?<to>.*).sql$ : the dot before sql
\* is not escaped and stands for any one character (names hold no line feed)
NameMatches(name) ==
    /\ HasAt(name, NamePrefix, 1)
    /\ HasAt(name, SubSeq(NameSuffix, 2, 4), Len(name) - 2)

\* the two captures of a name the regex matched, each parsed by
\* Version::from_str
ParseCaptures(c) ==
    CHOOSE r \in {IF from.ok /\ to.ok
                  THEN [ok |-> TRUE, v |-> [original |-> c.name, from |-> from.v, to |-> to.v]]
                  ELSE ParseErr : from \in {from_str(c.from)}, to \in {from_str(c.to)}} : TRUE

\* the captures of the match: the first capture is greedy, so the "--"
\* between the two is the last of the places P
GreedyMatch(name, P) ==
    IF P = {} THEN ParseErr
    ELSE ParseCaptures(Captures(name, CHOOSE i \in P : \A j \in P : j <= i))

\* ParsedScriptName::from_static_str
from_static_str(name) ==
    IF NameMatches(name)
    THEN CHOOSE r \in {GreedyMatch(name, P) : P \in {SeparatorPlaces(name)}} : TRUE
    ELSE ParseErr

\* ParsedScriptName::init_script
init_script(version) ==
    [original |-> INIT_SCRIPT_NAME, from |-> Version(0, 0, 0), to |-> version]

\* impl Ord for ParsedScriptName: by `from` only
NameCmp(a, b) == VersionCmp(a.from, b.from)

\* the place of s[i] in the stable sort of s by NameCmp
Rank(s, i) ==
    Cardinality({j \in 1..Len(s) :
        \/ NameCmp(s[j], s[i]) = "Less"
        \/ NameCmp(s[j], s[i]) = "Equal" /\ j <= i})

StableSort(s) == [k \in 1..Len(s) |-> s[CHOOSE i \in 1..Len(s) : Rank(s, i) = k]]

\* variant: the names are left in the order they are given in
unsorted(s) == s

\* Itertools::sorted: a stable sort by NameCmp
sorted(s) == Once(StableSort, s)

\* ParsedScriptName::all_in_directory
all_in_directory(dir) ==
    LET Parse(files)  == [i \in 1..Len(files) |-> from_static_str(files[i].name)]
        Parsed(r)     == r.ok
        Names(parsed) == [i \in 1..Len(parsed) |-> parsed[i].v]
    IN  sorted(Once(Names, SelectSeq(Once(Parse, dir), Parsed)))

PlanErr == [ok |-> FALSE, scripts |-> <<>>]
NotPlanned == [done |-> FALSE, ok |-> FALSE, scripts |-> <<>>]

\* MigrationScript::new: the file of that name, readable as UTF-8
HasFile(dir, name) == \E i \in 1..Len(dir) : dir[i].name = name /\ dir[i].utf8
GetFile(dir, name) == dir[CHOOSE i \in 1..Len(dir) : dir[i].name = name]

\* variant: an empty list of applied migrations counts as version 0.0.0
current_version_zero(pgmq_version, applied) ==
    IF applied = {} THEN Version(0, 0, 0)
    ELSE MaxVersion({a.version : a \in applied})

\* variant: the lowest recorded version instead of the highest
current_version_min(pgmq_version, applied) ==
    IF applied = {} THEN pgmq_version
    ELSE CHOOSE v \in {a.version : a \in applied} :
             \A a \in applied : VersionGe(a.version, v)

\* the version the planner takes the database to be at
current_version(pgmq_version, applied) ==
    IF applied = {} THEN pgmq_version
    ELSE MaxVersion({a.version : a \in applied})

\* variant: no filter on the applied names
already_applied_never(applied, n) == FALSE

\* the filter of get_scripts_internal: a row of that name is in the applied list
already_applied(applied, n) == \E a \in applied : a.name = n.original

\* variant: the init script goes through the filter on the current version
\* with the scripts of the directory
get_scripts_internal_init_filtered(pgmq_version, dir, applied) ==
    LET After(n)      == VersionGe(n.from, current_version(pgmq_version, applied))
        scripts       == SelectSeq(<<init_script(pgmq_version)>> \o all_in_directory(dir), After)
        NotApplied(n) == ~ already_applied(applied, n)
        Scripts(names) ==
            IF \A i \in 1..Len(names) : HasFile(dir, names[i].original)
            THEN [ok |-> TRUE,
                  scripts |-> [i \in 1..Len(names) |->
                                 [name |-> names[i],
                                  content |-> GetFile(dir, names[i].original).content]]]
            ELSE PlanErr
    IN  Once(Scripts, sorted(SelectSeq(scripts, NotApplied)))

\* MigrationScript::get_scripts_internal
get_scripts_internal(pgmq_version, dir, applied) ==
    LET After(n)      == VersionGe(n.from, current_version(pgmq_version, applied))
        scripts       == SelectSeq(all_in_directory(dir), After)
        NotApplied(n) == ~ already_applied(applied, n)
        Scripts(names) ==
            IF \A i \in 1..Len(names) : HasFile(dir, names[i].original)
            THEN [ok |-> TRUE,
                  scripts |-> [i \in 1..Len(names) |->
                                 [name |-> names[i],
                                  content |-> GetFile(dir, names[i].original).content]]]
            ELSE PlanErr
    IN  Once(Scripts,
             sorted(SelectSeq(<<init_script(pgmq_version)>> \o scripts, NotApplied)))

(***************************************************************************)
(* The installers and the database.                                        *)
(* An installer is a build of the crate: the version of its pgmq.control   *)
(* and its embedded script directory.  The database holds the committed    *)
(* schema objects, the rows of pgmq.__pgmq_migrations and the effects of   *)
(* the statements that were run, and the two locks.                        *)
(***************************************************************************)
InstallVersions == {Version(1, 2, 0), Version(1, 11, 0)}

UpgradeFiles(V) == {File(ScriptFileName(f, t), TRUE) : <<f, t>> \in {e \in V \X V : e[1] # e[2]}}

\* the sequences of at most n distinct files of F
DistinctSeqs(F, n) ==
    {s \in UNION {[1..k -> F] : k \in 0..n} : \A i, j \in 1..Len(s) : s[i] = s[j] => i = j}

InitFile == File(INIT_SCRIPT_NAME, TRUE)

Installers ==
    [pgmq_version : InstallVersions,
     dir : {<<InitFile>> \o s : s \in DistinctSeqs(UpgradeFiles(InstallVersions), MaxCatalog)}]

NoInstaller == [pgmq_version |-> Version(0, 0, 0), dir |-> <<>>]

VARIABLES
    db,            \* committed state: [schema, table, ledger, effects]
    advisoryLock,  \* the transaction holding pg_advisory_xact_lock(ADVISORY_LOCK_KEY)
    tableLock,     \* the transaction holding ACCESS EXCLUSIVE on the tracking table
    installer,     \* the build that makes each process's current call
    pc,            \* where each process is in install_sql
    calls,         \* number of install_sql calls each process has started
    tx,            \* each process's uncommitted writes: [ddl, ledger, effects]
    applied,       \* the rows fetch_all returned
    plan,          \* the scripts get_scripts returned
    idx,           \* position in the plan of the script being run
    stmt,          \* position in the script of the statement being run
    result,        \* what install_sql returned: "None" while running, "Ok", "Err"
    waited,        \* history: the call found the advisory lock held by another
    lastCommit,    \* history: [by, installer] of the call that committed last
    seenLast,      \* history: lastCommit when the call read the ledger
    appliedBy,     \* history: <<script name, process, call>> of every committed run
    origin,        \* history: [db, retry, clean] of the call: the committed state when
                   \* the process began the first of its calls since its last success,
                   \* whether its last call failed, whether no other process committed since
    planIn,        \* planner harness: [pgmq_version, dir, applied]
    planOut,       \* planner harness: the planner's result
    verIn,         \* version harness: [op, a, b, c] or [op, v]
    verOut,        \* version harness: the results of the operation
    parseIn,       \* parser harness: [op, text] or [op, dir]
    parseOut,      \* parser harness: the result of the parser
    queues,        \* the names of the queues in pgmq.meta
    partConfig,    \* the names of the queues whose table is in part_config
    queueOut,      \* the call of each client that creates a queue: [op, name, pc, existed,
                   \* created, r]
    cliIn,         \* pgmq-cli: [op, args, reachable, install], the command line and
                   \* what the database would answer
    cliOut         \* pgmq-cli: [done, connected, installed, exit], what the process did

procVars == <<installer, pc, calls, tx, applied, plan, idx, stmt, result>>
histVars == <<waited, lastCommit, seenLast, appliedBy, origin>>
parseVars == <<parseIn, parseOut>>
queueVars == <<queues, partConfig, queueOut>>
cliVars == <<cliIn, cliOut>>
harnessVars == <<planIn, planOut, verIn, verOut, parseVars, queueVars, cliVars>>
vars == <<db, advisoryLock, tableLock, procVars, histVars, harnessVars>>

NoCommit == [by |-> NoProc, installer |-> NoInstaller]
NotRead == [by |-> -1, installer |-> NoInstaller]
EmptyTx == [ddl |-> {}, ledger |-> {}, effects |-> {}]
EmptyDb == [schema |-> FALSE, table |-> FALSE, ledger |-> {}, effects |-> {}]
NoOrigin == [db |-> EmptyDb, retry |-> FALSE, clean |-> TRUE]
NoPlanIn == [pgmq_version |-> Version(0, 0, 0), dir |-> <<>>, applied |-> {}]
NoVerIn == [op |-> "none"]
NoVerOut == [done |-> FALSE]
NoParseIn == [op |-> "none"]
NoParseOut == [done |-> FALSE]
NoCall == [op |-> "none", name |-> "", pc |-> "idle", existed |-> FALSE,
           created |-> FALSE, r |-> "None"]
NoCliIn == [op |-> "none"]
NoCliOut == [done |-> FALSE]

Init ==
    /\ db = EmptyDb
    /\ advisoryLock = NoProc
    /\ tableLock = NoProc
    /\ installer = [p \in Procs |-> NoInstaller]
    /\ pc = [p \in Procs |-> "idle"]
    /\ calls = [p \in Procs |-> 0]
    /\ tx = [p \in Procs |-> EmptyTx]
    /\ applied = [p \in Procs |-> {}]
    /\ plan = [p \in Procs |-> <<>>]
    /\ idx = [p \in Procs |-> 0]
    /\ stmt = [p \in Procs |-> 0]
    /\ result = [p \in Procs |-> "None"]
    /\ waited = [p \in Procs |-> FALSE]
    /\ lastCommit = NoCommit
    /\ seenLast = [p \in Procs |-> NotRead]
    /\ appliedBy = {}
    /\ origin = [p \in Procs |-> NoOrigin]
    /\ planIn = NoPlanIn
    /\ planOut = NotPlanned
    /\ verIn = NoVerIn
    /\ verOut = NoVerOut
    /\ parseIn = NoParseIn
    /\ parseOut = NoParseOut
    /\ queues = {}
    /\ partConfig = {}
    /\ queueOut = [c \in 1..NumClients |-> NoCall]
    /\ cliIn = NoCliIn
    /\ cliOut = NoCliOut

\* variant: the lock statements never block
CanAcquireAlways(holder, p) == TRUE

\* a transaction-scoped lock is granted when no other transaction holds it
CanAcquire(holder, p) == holder \in {NoProc, p}

\* variant: the locks outlive the transaction
ReleasedNever(holder, p) == holder

\* the end of a transaction releases the locks it holds
Released(holder, p) == IF holder = p THEN NoProc ELSE holder

\* the rows a transaction sees: the committed ones and its own
Visible(p) == db.ledger \cup tx[p].ledger

\* the number of calls started so far
RECURSIVE SumCalls(_)
SumCalls(S) == IF S = {} THEN 0
               ELSE LET p == CHOOSE q \in S : TRUE IN calls[p] + SumCalls(S \ {p})
TotalCalls == SumCalls(Procs)

\* install_sql: pool.begin()
Begin(p) ==
    /\ pc[p] \in {"idle", "committed", "aborted"}
    /\ TotalCalls < MaxCalls
    /\ calls' = [calls EXCEPT ![p] = @ + 1]
    /\ \E i \in Installers : installer' = [installer EXCEPT ![p] = i]
    /\ \E ok \in BOOLEAN :
         /\ pc' = [pc EXCEPT ![p] = IF ok THEN "begun" ELSE "aborted"]
         /\ result' = [result EXCEPT ![p] = IF ok THEN "None" ELSE "Err"]
         /\ waited' = [waited EXCEPT ![p] = ok /\ advisoryLock # NoProc]
    /\ tx' = [tx EXCEPT ![p] = EmptyTx]
    /\ applied' = [applied EXCEPT ![p] = {}]
    /\ plan' = [plan EXCEPT ![p] = <<>>]
    /\ idx' = [idx EXCEPT ![p] = 0]
    /\ stmt' = [stmt EXCEPT ![p] = 0]
    /\ seenLast' = [seenLast EXCEPT ![p] = NotRead]
    /\ origin' = [origin EXCEPT ![p] = IF pc[p] = "aborted"
                                       THEN [@ EXCEPT !.retry = TRUE]
                                       ELSE [db |-> db, retry |-> FALSE, clean |-> TRUE]]
    /\ UNCHANGED <<db, advisoryLock, tableLock, lastCommit, appliedBy, harnessVars>>

\* create_table: SELECT pg_advisory_xact_lock($1), which blocks while another holds the lock
AcquireAdvisoryLock(p) ==
    /\ pc[p] = "begun"
    /\ CanAcquire(advisoryLock, p)
    /\ advisoryLock' = p
    /\ pc' = [pc EXCEPT ![p] = "locked"]
    /\ waited' = [q \in Procs |-> waited[q] \/ (q # p /\ pc[q] = "begun")]
    /\ UNCHANGED <<db, tableLock, installer, calls, tx, applied, plan, idx, stmt, result,
                   lastCommit, seenLast, appliedBy, origin, harnessVars>>

\* create_table: CREATE SCHEMA IF NOT EXISTS pgmq
CreateSchema(p) ==
    /\ pc[p] = "locked"
    /\ tx' = [tx EXCEPT ![p].ddl = IF db.schema THEN @ ELSE @ \cup {"schema"}]
    /\ pc' = [pc EXCEPT ![p] = "schema"]
    /\ UNCHANGED <<db, advisoryLock, tableLock, installer, calls, applied, plan, idx, stmt,
                   result, histVars, harnessVars>>

\* variant: CREATE TABLE without IF NOT EXISTS creates the table anew
CreateTableAnew(p) ==
    /\ pc[p] = "schema"
    /\ tx' = [tx EXCEPT ![p].ddl = @ \cup {"table"}]
    /\ pc' = [pc EXCEPT ![p] = "table"]
    /\ UNCHANGED <<db, advisoryLock, tableLock, installer, calls, applied, plan, idx, stmt,
                   result, histVars, harnessVars>>

\* create_table: CREATE TABLE IF NOT EXISTS pgmq.__pgmq_migrations
CreateTable(p) ==
    /\ pc[p] = "schema"
    /\ tx' = [tx EXCEPT ![p].ddl = IF db.table THEN @ ELSE @ \cup {"table"}]
    /\ pc' = [pc EXCEPT ![p] = "table"]
    /\ UNCHANGED <<db, advisoryLock, tableLock, installer, calls, applied, plan, idx, stmt,
                   result, histVars, harnessVars>>

\* variant: create_table ends without the LOCK TABLE statement
LockTableSkipped(p) ==
    /\ pc[p] = "table"
    /\ pc' = [pc EXCEPT ![p] = "tablelocked"]
    /\ UNCHANGED <<db, advisoryLock, tableLock, installer, calls, tx, applied, plan, idx, stmt,
                   result, histVars, harnessVars>>

\* create_table: LOCK TABLE pgmq.__pgmq_migrations IN ACCESS EXCLUSIVE MODE
LockTable(p) ==
    /\ pc[p] = "table"
    /\ CanAcquire(tableLock, p)
    /\ tableLock' = p
    /\ pc' = [pc EXCEPT ![p] = "tablelocked"]
    /\ UNCHANGED <<db, advisoryLock, installer, calls, tx, applied, plan, idx, stmt, result,
                   histVars, harnessVars>>

\* variant: a row whose version does not parse is skipped
fetch_all_skip_corrupt(rows) ==
    [ok |-> TRUE,
     rows |-> {[name |-> r.name, version |-> from_str(r.version).v] :
                  r \in {x \in rows : from_str(x.version).ok}}]

\* AppliedMigration::fetch_all: every row, its version parsed
fetch_all(rows) ==
    IF \A r \in rows : from_str(r.version).ok
    THEN [ok |-> TRUE,
          rows |-> {[name |-> r.name, version |-> from_str(r.version).v] : r \in rows}]
    ELSE [ok |-> FALSE, rows |-> {}]

\* get_scripts: AppliedMigration::fetch_all(tx)
FetchAll(p) ==
    /\ pc[p] = "tablelocked"
    /\ \E r \in {fetch_all(Visible(p))} :
           IF r.ok
           THEN /\ applied' = [applied EXCEPT ![p] = r.rows]
                /\ pc' = [pc EXCEPT ![p] = "fetched"]
                /\ seenLast' = [seenLast EXCEPT ![p] = lastCommit]
                /\ UNCHANGED result
           ELSE /\ pc' = [pc EXCEPT ![p] = "failed"]
                /\ result' = [result EXCEPT ![p] = "Err"]
                /\ UNCHANGED <<applied, seenLast>>
    /\ UNCHANGED <<db, advisoryLock, tableLock, installer, calls, tx, plan, idx, stmt,
                   waited, lastCommit, appliedBy, origin, harnessVars>>

\* get_scripts: get_scripts_internal(get_pgmq_version()?, &MIGRATION_SCRIPTS, applied)
GetScripts(p) ==
    /\ pc[p] = "fetched"
    /\ \E r \in {get_scripts_internal(installer[p].pgmq_version, installer[p].dir,
                                       applied[p])} :
           IF r.ok
           THEN /\ plan' = [plan EXCEPT ![p] = r.scripts]
                /\ idx' = [idx EXCEPT ![p] = 1]
                /\ stmt' = [stmt EXCEPT ![p] = 1]
                /\ pc' = [pc EXCEPT ![p] = IF Len(r.scripts) = 0 THEN "commit" ELSE "running"]
                /\ UNCHANGED result
           ELSE /\ pc' = [pc EXCEPT ![p] = "failed"]
                /\ result' = [result EXCEPT ![p] = "Err"]
                /\ UNCHANGED <<plan, idx, stmt>>
    /\ UNCHANGED <<db, advisoryLock, tableLock, installer, calls, tx, applied,
                   histVars, harnessVars>>

\* variant: run stops reading the results after the first statement
ExecStatementFirstOnly(p) ==
    /\ pc[p] = "running"
    /\ LET script == plan[p][idx[p]]
       IN  /\ tx' = [tx EXCEPT ![p].effects =
                        @ \cup {<<script.name.original, script.content[stmt[p]]>>}]
           /\ pc' = [pc EXCEPT ![p] = "insert"]
    /\ UNCHANGED <<db, advisoryLock, tableLock, installer, calls, applied, plan, idx, stmt,
                   result, histVars, harnessVars>>

\* MigrationScript::run: the next statement of tx.fetch_many(content) succeeds
ExecStatement(p) ==
    /\ pc[p] = "running"
    /\ LET script == plan[p][idx[p]]
       IN  /\ tx' = [tx EXCEPT ![p].effects =
                        @ \cup {<<script.name.original, script.content[stmt[p]]>>}]
           /\ IF stmt[p] = Len(script.content)
              THEN pc' = [pc EXCEPT ![p] = "insert"] /\ UNCHANGED stmt
              ELSE stmt' = [stmt EXCEPT ![p] = @ + 1] /\ UNCHANGED pc
    /\ UNCHANGED <<db, advisoryLock, tableLock, installer, calls, applied, plan, idx,
                   result, histVars, harnessVars>>

\* variant: the row is keyed by the version instead of the script's name
insert_script_by_version(script) ==
    [name |-> <<"version", to_string(script.name.to)>>, version |-> to_string(script.name.to)]

\* variant: the row holds the version the script starts from
insert_script_from(script) ==
    [name |-> script.name.original, version |-> to_string(script.name.from)]

\* AppliedMigration::insert_script: the row ( name, version ) of a script
insert_script(script) ==
    [name |-> script.name.original, version |-> to_string(script.name.to)]

\* variant: the INSERT runs on the pool, outside the transaction
InsertScriptAutocommit(p) ==
    /\ pc[p] = "insert"
    /\ LET row == [name |-> plan[p][idx[p]].name.original,
                   version |-> to_string(plan[p][idx[p]].name.to)]
       IN  IF \E r \in Visible(p) : r.name = row.name
           THEN /\ pc' = [pc EXCEPT ![p] = "failed"]
                /\ result' = [result EXCEPT ![p] = "Err"]
                /\ UNCHANGED <<db, idx, stmt>>
           ELSE /\ db' = [db EXCEPT !.ledger = @ \cup {row}]
                /\ IF idx[p] = Len(plan[p])
                   THEN pc' = [pc EXCEPT ![p] = "commit"] /\ UNCHANGED <<idx, stmt>>
                   ELSE /\ pc' = [pc EXCEPT ![p] = "running"]
                        /\ idx' = [idx EXCEPT ![p] = @ + 1]
                        /\ stmt' = [stmt EXCEPT ![p] = 1]
                /\ UNCHANGED result
    /\ UNCHANGED <<advisoryLock, tableLock, installer, calls, tx, applied, plan,
                   histVars, harnessVars>>

\* MigrationScript::run: the INSERT, refused by the primary key on a name already there;
\* then install_sql's loop goes to the next script
InsertScript(p) ==
    /\ pc[p] = "insert"
    /\ LET row == insert_script(plan[p][idx[p]])
       IN  IF \E r \in Visible(p) : r.name = row.name
           THEN /\ pc' = [pc EXCEPT ![p] = "failed"]
                /\ result' = [result EXCEPT ![p] = "Err"]
                /\ UNCHANGED <<tx, idx, stmt>>
           ELSE /\ tx' = [tx EXCEPT ![p].ledger = @ \cup {row}]
                /\ IF idx[p] = Len(plan[p])
                   THEN pc' = [pc EXCEPT ![p] = "commit"] /\ UNCHANGED <<idx, stmt>>
                   ELSE /\ pc' = [pc EXCEPT ![p] = "running"]
                        /\ idx' = [idx EXCEPT ![p] = @ + 1]
                        /\ stmt' = [stmt EXCEPT ![p] = 1]
                /\ UNCHANGED result
    /\ UNCHANGED <<db, advisoryLock, tableLock, installer, calls, applied, plan,
                   histVars, harnessVars>>

\* variant: the tracking table is created anew by each install, so that a commit
\* leaves only the rows of its own transaction
CommittedOverwrites(d, t) ==
    [schema  |-> d.schema \/ "schema" \in t.ddl,
     table   |-> d.table \/ "table" \in t.ddl,
     ledger  |-> t.ledger,
     effects |-> d.effects \cup t.effects]

\* the committed state after a transaction's writes are committed
Committed(d, t) ==
    [schema  |-> d.schema \/ "schema" \in t.ddl,
     table   |-> d.table \/ "table" \in t.ddl,
     ledger  |-> d.ledger \cup t.ledger,
     effects |-> d.effects \cup t.effects]

\* install_sql: tx.commit() succeeds and install_sql returns Ok(())
Commit(p) ==
    /\ pc[p] = "commit"
    /\ db' = Committed(db, tx[p])
    /\ advisoryLock' = Released(advisoryLock, p)
    /\ tableLock' = Released(tableLock, p)
    /\ tx' = [tx EXCEPT ![p] = EmptyTx]
    /\ pc' = [pc EXCEPT ![p] = "committed"]
    /\ result' = [result EXCEPT ![p] = "Ok"]
    /\ lastCommit' = [by |-> p, installer |-> installer[p]]
    /\ appliedBy' = appliedBy \cup {<<e[1], p, calls[p]>> : e \in tx[p].effects}
    /\ origin' = [q \in Procs |-> IF q = p THEN origin[q] ELSE [origin[q] EXCEPT !.clean = FALSE]]
    /\ UNCHANGED <<installer, calls, applied, plan, idx, stmt, waited, seenLast, harnessVars>>

InTx == {"begun", "locked", "schema", "table", "tablelocked", "fetched",
         "running", "insert", "commit"}

\* variant: the error of a statement is recorded and the loop goes on
FailContinues(p) ==
    /\ pc[p] \in InTx
    /\ result[p] # "Err"
    /\ result' = [result EXCEPT ![p] = "Err"]
    /\ UNCHANGED <<db, advisoryLock, tableLock, installer, pc, calls, tx, applied, plan, idx,
                   stmt, histVars, harnessVars>>

\* a `?` of install_sql: the statement awaited fails and install_sql returns the error
Fail(p) ==
    /\ pc[p] \in InTx
    /\ pc' = [pc EXCEPT ![p] = "failed"]
    /\ result' = [result EXCEPT ![p] = "Err"]
    /\ UNCHANGED <<db, advisoryLock, tableLock, installer, calls, tx, applied, plan, idx,
                   stmt, histVars, harnessVars>>

\* variant: the writes of a failed call stay
RolledBackKeeps(d, t) == Committed(d, t)

\* the committed state after a transaction is rolled back
RolledBack(d, t) == d

\* the dropped Transaction is rolled back
Rollback(p) ==
    /\ pc[p] = "failed"
    /\ db' = RolledBack(db, tx[p])
    /\ advisoryLock' = Released(advisoryLock, p)
    /\ tableLock' = Released(tableLock, p)
    /\ tx' = [tx EXCEPT ![p] = EmptyTx]
    /\ pc' = [pc EXCEPT ![p] = "aborted"]
    /\ UNCHANGED <<installer, calls, applied, plan, idx, stmt, result, histVars, harnessVars>>

Next ==
    \E p \in Procs :
        \/ Begin(p)
        \/ AcquireAdvisoryLock(p)
        \/ CreateSchema(p)
        \/ CreateTable(p)
        \/ LockTable(p)
        \/ FetchAll(p)
        \/ GetScripts(p)
        \/ ExecStatement(p)
        \/ InsertScript(p)
        \/ Commit(p)
        \/ Fail(p)
        \/ Rollback(p)

Spec == Init /\ [][Next]_vars

(***************************************************************************)
(* The planner on its own: get_scripts_internal applied to a version, a    *)
(* directory and a list of applied migrations, as its unit tests call it.  *)
(***************************************************************************)
PlanVersions == {Version(0, 0, 0), Version(1, 2, 0), Version(1, 11, 0), Version(2, 0, 0)}

PlanFiles ==
    {File(ScriptFileName(e[1], e[2]), TRUE) :
        e \in {e \in PlanVersions \X PlanVersions : VersionLt(e[1], e[2])}}

PlanDirs ==
    {i \o s : i \in {<<>>, <<InitFile>>}, s \in DistinctSeqs(PlanFiles, MaxPlanCatalog)}

PlanRows ==
    [name : {INIT_SCRIPT_NAME} \cup {f.name : f \in PlanFiles}, version : PlanVersions]

\* the subsets of S of at most n elements
RECURSIVE SubsetsUpTo(_, _)
SubsetsUpTo(S, n) ==
    IF n = 0 THEN {{}}
    ELSE LET smaller == SubsetsUpTo(S, n - 1)
         IN  smaller \cup {A \cup {x} : A \in smaller, x \in S}

PlanInputs ==
    [pgmq_version : PlanVersions,
     dir : PlanDirs,
     applied : SubsetsUpTo(PlanRows, MaxApplied)]

InitPlanner ==
    /\ db = EmptyDb
    /\ advisoryLock = NoProc
    /\ tableLock = NoProc
    /\ installer = [p \in Procs |-> NoInstaller]
    /\ pc = [p \in Procs |-> "idle"]
    /\ calls = [p \in Procs |-> 0]
    /\ tx = [p \in Procs |-> EmptyTx]
    /\ applied = [p \in Procs |-> {}]
    /\ plan = [p \in Procs |-> <<>>]
    /\ idx = [p \in Procs |-> 0]
    /\ stmt = [p \in Procs |-> 0]
    /\ result = [p \in Procs |-> "None"]
    /\ waited = [p \in Procs |-> FALSE]
    /\ lastCommit = NoCommit
    /\ seenLast = [p \in Procs |-> NotRead]
    /\ appliedBy = {}
    /\ origin = [p \in Procs |-> NoOrigin]
    /\ planIn \in PlanInputs
    /\ planOut = NotPlanned
    /\ verIn = NoVerIn
    /\ verOut = NoVerOut
    /\ parseIn = NoParseIn
    /\ parseOut = NoParseOut
    /\ queues = {}
    /\ partConfig = {}
    /\ queueOut = [c \in 1..NumClients |-> NoCall]
    /\ cliIn = NoCliIn
    /\ cliOut = NoCliOut

\* a call of get_scripts_internal
RunPlanner ==
    /\ ~ planOut.done
    /\ \E r \in {get_scripts_internal(planIn.pgmq_version, planIn.dir, planIn.applied)} :
           planOut' = [done |-> TRUE, ok |-> r.ok, scripts |-> r.scripts]
    /\ UNCHANGED <<db, advisoryLock, tableLock, procVars, histVars, planIn, verIn, verOut,
                   parseVars, queueVars, cliVars>>

NextPlanner == RunPlanner

SpecPlanner == InitPlanner /\ [][NextPlanner]_vars

(***************************************************************************)
(* install_sql on a database that is found with a ledger: the version      *)
(* column is TEXT, and a row may hold a text that is not a version.        *)
(***************************************************************************)
\* texts that Version::from_str rejects: two segments, letters, a segment above u32::MAX
CorruptVersions ==
    {<<"1", ".", "2">>,
     <<"a", ".", "b", ".", "c">>,
     <<"4", "2", "9", "4", "9", "6", "7", "2", "9", "6", ".", "0", ".", "0">>}

\* the row of the init script as a build of version 1.2.0 inserts it
InitRow == insert_script([name |-> init_script(Version(1, 2, 0))])

\* the ledgers found: none, the init script's row alone, the init script's row
\* with a corrupt version, and the init script's row with a second, corrupt row
FoundLedgers ==
    {{}, {InitRow}}
    \cup {{[name |-> INIT_SCRIPT_NAME, version |-> c]} : c \in CorruptVersions}
    \cup {{InitRow,
           [name |-> ScriptFileName(Version(1, 2, 0), Version(1, 11, 0)), version |-> c]} :
              c \in CorruptVersions}

\* the database found with the ledger l: the scripts of its rows have run
FoundDb(l) ==
    IF l = {} THEN EmptyDb
    ELSE [schema |-> TRUE, table |-> TRUE, ledger |-> l,
          effects |-> {<<r.name, j>> : r \in l, j \in 1..StmtsPerScript}]

InitLedger ==
    /\ db \in {FoundDb(l) : l \in FoundLedgers}
    /\ advisoryLock = NoProc
    /\ tableLock = NoProc
    /\ installer = [p \in Procs |-> NoInstaller]
    /\ pc = [p \in Procs |-> "idle"]
    /\ calls = [p \in Procs |-> 0]
    /\ tx = [p \in Procs |-> EmptyTx]
    /\ applied = [p \in Procs |-> {}]
    /\ plan = [p \in Procs |-> <<>>]
    /\ idx = [p \in Procs |-> 0]
    /\ stmt = [p \in Procs |-> 0]
    /\ result = [p \in Procs |-> "None"]
    /\ waited = [p \in Procs |-> FALSE]
    /\ lastCommit = NoCommit
    /\ seenLast = [p \in Procs |-> NotRead]
    /\ appliedBy = {}
    /\ origin = [p \in Procs |-> [NoOrigin EXCEPT !.db = db]]
    /\ planIn = NoPlanIn
    /\ planOut = NotPlanned
    /\ verIn = NoVerIn
    /\ verOut = NoVerOut
    /\ parseIn = NoParseIn
    /\ parseOut = NoParseOut
    /\ queues = {}
    /\ partConfig = {}
    /\ queueOut = [c \in 1..NumClients |-> NoCall]
    /\ cliIn = NoCliIn
    /\ cliOut = NoCliOut

SpecLedger == InitLedger /\ [][Next]_vars

(***************************************************************************)
(* The version operations on their own: cmp on three versions, and         *)
(* to_string followed by from_str on one, as the unit tests call them.     *)
(***************************************************************************)
\* the segment values compared: one digit and two, as in 1.2.0 and 1.11.1
CmpParts == {0, 1, 2, 11}

\* the segment values formatted: zero, a trailing zero, two digits, and ten digits
FmtParts == {0, 10, 11, 2147483647}

VersionsOf(parts) == {Version(ma, mi, pa) : ma \in parts, mi \in parts, pa \in parts}

VersionInputs ==
    [op : {"cmp"}, a : VersionsOf(CmpParts), b : VersionsOf(CmpParts), c : VersionsOf(CmpParts)]
    \cup [op : {"fmt"}, v : VersionsOf(FmtParts)]

InitVersion ==
    /\ db = EmptyDb
    /\ advisoryLock = NoProc
    /\ tableLock = NoProc
    /\ installer = [p \in Procs |-> NoInstaller]
    /\ pc = [p \in Procs |-> "idle"]
    /\ calls = [p \in Procs |-> 0]
    /\ tx = [p \in Procs |-> EmptyTx]
    /\ applied = [p \in Procs |-> {}]
    /\ plan = [p \in Procs |-> <<>>]
    /\ idx = [p \in Procs |-> 0]
    /\ stmt = [p \in Procs |-> 0]
    /\ result = [p \in Procs |-> "None"]
    /\ waited = [p \in Procs |-> FALSE]
    /\ lastCommit = NoCommit
    /\ seenLast = [p \in Procs |-> NotRead]
    /\ appliedBy = {}
    /\ origin = [p \in Procs |-> NoOrigin]
    /\ planIn = NoPlanIn
    /\ planOut = NotPlanned
    /\ verIn \in VersionInputs
    /\ verOut = NoVerOut
    /\ parseIn = NoParseIn
    /\ parseOut = NoParseOut
    /\ queues = {}
    /\ partConfig = {}
    /\ queueOut = [c \in 1..NumClients |-> NoCall]
    /\ cliIn = NoCliIn
    /\ cliOut = NoCliOut

\* Version::cmp on each pair of the three versions
CompareVersions ==
    /\ verIn.op = "cmp"
    /\ ~ verOut.done
    /\ verOut' = [done |-> TRUE,
                  ab |-> VersionCmp(verIn.a, verIn.b),
                  ba |-> VersionCmp(verIn.b, verIn.a),
                  bc |-> VersionCmp(verIn.b, verIn.c),
                  ac |-> VersionCmp(verIn.a, verIn.c)]
    /\ UNCHANGED <<db, advisoryLock, tableLock, procVars, histVars, planIn, planOut, verIn,
                   parseVars, queueVars, cliVars>>

\* Version::from_str(&v.to_string())
RoundTrip ==
    /\ verIn.op = "fmt"
    /\ ~ verOut.done
    /\ \E t \in {to_string(verIn.v)} :
           verOut' = [done |-> TRUE, text |-> t, parsed |-> from_str(t)]
    /\ UNCHANGED <<db, advisoryLock, tableLock, procVars, histVars, planIn, planOut, verIn,
                   parseVars, queueVars, cliVars>>

NextVersion == CompareVersions \/ RoundTrip

SpecVersion == InitVersion /\ [][NextVersion]_vars

(***************************************************************************)
(* The parsers on their own, each applied to one text as the unit tests    *)
(* call them: Version::from_str, ParsedScriptName::from_static_str,        *)
(* Version::get_pgmq_version_from_contents and, on a directory,            *)
(* ParsedScriptName::all_in_directory.                                     *)
(***************************************************************************)
\* number of characters of the version texts that are all drawn
MaxTextLen == 5
\* number of lines of a control file at most
MaxLines == 2
\* number of entries of a directory at most
MaxDirFiles == 2

\* the sequences of at most n elements of S
SeqsUpTo(S, n) == UNION {[1..k -> S] : k \in 0..n}

\* digits, the dot, a letter, a blank, a sign
VersionChars == {"0", "1", "9", ".", "a", " ", "-"}

\* texts longer than MaxTextLen: the versions of the unit tests, segments of
\* several digits, leading zeros, a fourth segment, a suffix, a line feed, a
\* digit that is not ASCII ("U+0663" stands for that one character), and
\* segments around u32::MAX (a segment above 2147483647 that fits u32 is not
\* drawn: the numbers of TLC end there)
LongTexts ==
    {<<"1", ".", "1", "1", ".", "0">>,
     <<"1", ".", "2", ".", "3", ".", "4">>,
     <<"1", ".", "2", ".", "3", "-", "r", "c">>,
     <<"v", "1", ".", "2", ".", "3">>,
     <<"1", ".", "2", ".", "3", "\n">>,
     <<" ", "1", ".", "2", ".", "3", " ">>,
     <<"a", ".", "b", ".", "c">>,
     <<"0", "1", ".", "0", "0", "2", ".", "0", "0", "0", "3">>,
     <<"1", "0", ".", "2", "0", ".", "3", "0">>,
     <<"1", ".", "2", ".", "U+0663">>,
     <<"2", "1", "4", "7", "4", "8", "3", "6", "4", "7", ".", "0", ".", "1">>,
     <<"4", "2", "9", "4", "9", "6", "7", "2", "9", "6", ".", "0", ".", "0">>,
     <<"0", ".", "4", "2", "9", "4", "9", "6", "7", "2", "9", "6", ".", "0">>,
     <<"0", ".", "0", ".", "4", "2", "9", "4", "9", "6", "7", "2", "9", "6">>,
     <<"9", "9", "9", "9", "9", "9", "9", "9", "9", "9", "9", ".", "1", ".", "1">>,
     <<"0", "0", "0", "0", "4", "2", "9", "4", "9", "6", "7", "2", "9", "6", ".", "1", ".", "1">>,
     <<"0", "0", "0", "0", "0", "0", "0", "0", "0", "0", "0", "0", "1", ".", "2", ".", "3">>,
     <<"1", ".", ".", "2", ".", "3">>,
     <<"1", ",", "2", ",", "3">>}

VersionTextInputs ==
    [op : {"version"}, text : SeqsUpTo(VersionChars, MaxTextLen) \cup LongTexts]

\* the parts a file name is put together from
NameHeads == {<<"p", "g", "m", "q", "-", "-">>, <<"p", "g", "m", "q", "-">>, <<"x", "p", "g", "m", "q", "-", "-">>}
NameVersionTexts == {<<"1", ".", "2", ".", "0">>,
                     <<"1", ".", "1", "1", ".", "0">>,
                     <<"a", ".", "b", ".", "c">>,
                     <<"1", ".", "2">>,
                     <<>>}
NameSeparators == {<<"-", "-">>, <<"-">>, <<"-", "-", "-">>}
NameTails == {<<".", "s", "q", "l">>,
              <<"x", "s", "q", "l">>,
              <<".", "s", "q", "l", "x">>,
              <<".", "s", "q">>,
              <<"s", "q", "l">>}

\* names of other files of a directory, and the names of the unit tests
OtherNames ==
    {<<"p", "g", "m", "q", ".", "s", "q", "l">>,
     <<"R", "E", "A", "D", "M", "E", ".", "m", "d">>,
     <<"p", "g", "m", "q", "-", "-", "1", ".", "2", ".", "3", "-", "-", "4", ".", "5", ".", "6", ".", "s", "q", "l">>,
     <<"p", "g", "m", "q", "-", "1", ".", "2", ".", "3", "-", "4", ".", "5", ".", "6", ".", "s", "q", "l">>,
     <<"p", "g", "m", "q", "-", "-", "1", ".", "2", ".", "0", "-", "-", "1", ".", "1", "1", ".", "0", "-", "-", "2", ".", "0", ".", "0", ".", "s", "q", "l">>,
     <<"p", "g", "m", "q", "-", "-", "1", ".", "2", ".", "0", "-", "-", "1", ".", "1", "1", ".", "0", ".", "s", "q", "l", ".", "s", "q", "l">>,
     <<>>}

NameTexts ==
    {h \o f \o s \o t \o e : h \in NameHeads, f \in NameVersionTexts, s \in NameSeparators,
                             t \in NameVersionTexts, e \in NameTails}
    \cup OtherNames

NameInputs == [op : {"name"}, text : NameTexts]

\* the lines of a control file: a lead, a key, the sign, the quoted value
LineLeads == {<<>>, <<" ", "\t">>}
LineKeys == {DefaultVersionKey, DefaultVersionKey \o <<"s">>, <<"c", "o", "m", "m", "e", "n", "t">>}
LineSigns == {<<"=">>, <<" ", "=", " ", " ">>, <<" ">>}
LineQuotes == {[open |-> <<"'">>, close |-> <<"'">>],
               [open |-> <<>>, close |-> <<>>],
               [open |-> <<"'">>, close |-> <<>>]}
LineValues == {<<"1", ".", "1", "1", ".", "0">>, <<"1", ".", "2", ".", "3">>, <<"a", ".", "b", ".", "c">>}
LineTrails == {<<>>, <<" ", " ">>}

LineShapes ==
    [lead : LineLeads, key : {DefaultVersionKey}, sign : LineSigns, quotes : LineQuotes,
     value : LineValues, trail : LineTrails]
    \cup [lead : LineLeads, key : LineKeys \ {DefaultVersionKey}, sign : {<<" ", "=", " ">>},
          quotes : {[open |-> <<"'">>, close |-> <<"'">>]},
          value : {<<"1", ".", "2", ".", "0">>}, trail : {<<>>}]

LineText(l) ==
    l.lead \o l.key \o l.sign \o l.quotes.open \o l.value \o l.quotes.close \o l.trail

\* the text of the lines ls, each line ended by eol, the last one only if final
RECURSIVE ControlText(_, _, _)
ControlText(ls, eol, final) ==
    IF Len(ls) = 0 THEN <<>>
    ELSE IF Len(ls) = 1 THEN LineText(ls[1]) \o (IF final THEN eol ELSE <<>>)
    ELSE LineText(ls[1]) \o eol \o ControlText(Tail(ls), eol, final)

ControlInputs ==
    [op : {"control"}, lines : SeqsUpTo(LineShapes, MaxLines),
     eol : {<<"\n">>, <<"\r", "\n">>}, final : BOOLEAN]

\* the names of the files of a directory
DirNames ==
    {<<"p", "g", "m", "q", ".", "s", "q", "l">>,
     <<"R", "E", "A", "D", "M", "E", ".", "m", "d">>,
     <<"p", "g", "m", "q", "-", "-", "1", ".", "2", ".", "0", "-", "-", "1", ".", "1", "1", ".", "0", ".", "s", "q", "l">>,
     <<"p", "g", "m", "q", "-", "-", "1", ".", "1", "1", ".", "0", "-", "-", "2", ".", "0", ".", "0", ".", "s", "q", "l">>,
     <<"p", "g", "m", "q", "-", "-", "0", ".", "0", ".", "0", "-", "-", "1", ".", "2", ".", "0", ".", "s", "q", "l">>,
     <<"p", "g", "m", "q", "-", "-", "1", ".", "2", "-", "-", "1", ".", "1", "1", ".", "0", ".", "s", "q", "l">>,
     <<"p", "g", "m", "q", "-", "-", "1", ".", "2", ".", "0", "-", "-", "a", ".", "b", ".", "c", ".", "s", "q", "l">>,
     <<"p", "g", "m", "q", "-", "-", "1", ".", "2", ".", "0", "-", "-", "1", ".", "1", "1", ".", "0", "x", "s", "q", "l">>,
     <<"p", "g", "m", "q", "-", "-", "4", "2", "9", "4", "9", "6", "7", "2", "9", "6", ".", "0", ".", "0", "-", "-", "1", ".", "2", ".", "0", ".", "s", "q", "l">>}

DirInputs == [op : {"dir"}, names : SeqsUpTo(DirNames, MaxDirFiles)]

InitParsers(inputs) ==
    /\ db = EmptyDb
    /\ advisoryLock = NoProc
    /\ tableLock = NoProc
    /\ installer = [p \in Procs |-> NoInstaller]
    /\ pc = [p \in Procs |-> "idle"]
    /\ calls = [p \in Procs |-> 0]
    /\ tx = [p \in Procs |-> EmptyTx]
    /\ applied = [p \in Procs |-> {}]
    /\ plan = [p \in Procs |-> <<>>]
    /\ idx = [p \in Procs |-> 0]
    /\ stmt = [p \in Procs |-> 0]
    /\ result = [p \in Procs |-> "None"]
    /\ waited = [p \in Procs |-> FALSE]
    /\ lastCommit = NoCommit
    /\ seenLast = [p \in Procs |-> NotRead]
    /\ appliedBy = {}
    /\ origin = [p \in Procs |-> NoOrigin]
    /\ planIn = NoPlanIn
    /\ planOut = NotPlanned
    /\ verIn = NoVerIn
    /\ verOut = NoVerOut
    /\ parseIn \in inputs
    /\ parseOut = NoParseOut
    /\ queues = {}
    /\ partConfig = {}
    /\ queueOut = [c \in 1..NumClients |-> NoCall]
    /\ cliIn = NoCliIn
    /\ cliOut = NoCliOut

\* Version::from_str(text)
ParseVersion ==
    /\ parseIn.op = "version"
    /\ ~ parseOut.done
    /\ parseOut' = [done |-> TRUE, r |-> from_str(parseIn.text)]
    /\ UNCHANGED <<db, advisoryLock, tableLock, procVars, histVars, planIn, planOut, verIn,
                   verOut, parseIn, queueVars, cliVars>>

\* ParsedScriptName::from_static_str(text)
ParseScriptName ==
    /\ parseIn.op = "name"
    /\ ~ parseOut.done
    /\ parseOut' = [done |-> TRUE, r |-> from_static_str(parseIn.text)]
    /\ UNCHANGED <<db, advisoryLock, tableLock, procVars, histVars, planIn, planOut, verIn,
                   verOut, parseIn, queueVars, cliVars>>

\* Version::get_pgmq_version_from_contents(text)
ResolveVersion ==
    /\ parseIn.op = "control"
    /\ ~ parseOut.done
    /\ \E t \in {ControlText(parseIn.lines, parseIn.eol, parseIn.final)} :
           parseOut' = [done |-> TRUE, text |-> t, r |-> get_pgmq_version_from_contents(t)]
    /\ UNCHANGED <<db, advisoryLock, tableLock, procVars, histVars, planIn, planOut, verIn,
                   verOut, parseIn, queueVars, cliVars>>

\* ParsedScriptName::all_in_directory(dir): the names of the entries are texts,
\* so that neither file_name() nor to_str() fails
Discover ==
    /\ parseIn.op = "dir"
    /\ ~ parseOut.done
    /\ \E dir \in {[i \in 1..Len(parseIn.names) |-> File(parseIn.names[i], TRUE)]} :
           parseOut' = [done |-> TRUE, ok |-> TRUE, scripts |-> all_in_directory(dir)]
    /\ UNCHANGED <<db, advisoryLock, tableLock, procVars, histVars, planIn, planOut, verIn,
                   verOut, parseIn, queueVars, cliVars>>

InitParseVersion == InitParsers(VersionTextInputs)
SpecParseVersion == InitParseVersion /\ [][ParseVersion]_vars

InitParseName == InitParsers(NameInputs)
SpecParseName == InitParseName /\ [][ParseScriptName]_vars

InitControl == InitParsers(ControlInputs)
SpecControl == InitControl /\ [][ResolveVersion]_vars

InitDiscover == InitParsers(DirInputs)
SpecDiscover == InitDiscover /\ [][Discover]_vars

(***************************************************************************)
(* pg_ext.rs: the creation of queues.  Each client makes one call at a     *)
(* time on a connection of the pool; every statement of a call is its own  *)
(* transaction, so that the statements of other clients run between the    *)
(* check of a call and its creation.  check_input and the SQL functions    *)
(* pgmq.create, pgmq.create_unlogged and pgmq.create_partitioned are not   *)
(* part of the crate's sources: check_input accepts the name or not, a     *)
(* statement succeeds or fails with a database error, and a function that  *)
(* succeeds leaves the queue registered.                                   *)
(***************************************************************************)
Clients == 1..NumClients

\* the variables of the installer and of the harnesses
installVars == <<db, advisoryLock, tableLock, procVars, histVars, planIn, planOut, verIn,
                 verOut, parseVars, cliVars>>

QueueNames == {"orders", "events"}

Idle(c) == queueOut[c].pc \in {"idle", "done"}

\* the record of a call that has returned r
Returned(op, n, created, r) ==
    [op |-> op, name |-> n, pc |-> "done", existed |-> n \in queues,
     created |-> created, r |-> r]

\* the record of a call that has found no queue of that name and goes on
Checked(op, n) ==
    [op |-> op, name |-> n, pc |-> "checked", existed |-> n \in queues,
     created |-> FALSE, r |-> "None"]

\* check_input(queue_name)? or the statement that follows it fails
CallFails(c, op, n) ==
    /\ Idle(c)
    /\ queueOut' = [queueOut EXCEPT ![c] = Returned(op, n, FALSE, "Err")]
    /\ UNCHANGED <<queues, partConfig, installVars>>

\* create_with_cxn: SELECT EXISTS(SELECT 1 FROM pgmq.meta WHERE queue_name = $1),
\* and Ok(false) if the queue exists
CreateCheck(c, n) ==
    /\ Idle(c)
    /\ queueOut' = [queueOut EXCEPT ![c] = IF n \in queues
                                           THEN Returned("create", n, FALSE, "Ok(false)")
                                           ELSE Checked("create", n)]
    /\ UNCHANGED <<queues, partConfig, installVars>>

\* create_with_cxn: SELECT * from pgmq.create(queue_name=>$1), then Ok(true)
CreateRun(c) ==
    /\ queueOut[c].pc = "checked" /\ queueOut[c].op = "create"
    /\ \E ok \in BOOLEAN :
         /\ queueOut' = [queueOut EXCEPT ![c] =
                [@ EXCEPT !.pc = "done",
                          !.created = ok /\ queueOut[c].name \notin queues,
                          !.r = IF ok THEN "Ok(true)" ELSE "Err"]]
         /\ queues' = IF ok THEN queues \cup {queueOut[c].name} ELSE queues
    /\ UNCHANGED <<partConfig, installVars>>

\* create_unlogged_with_cxn: SELECT * from pgmq.create_unlogged(queue_name=>$1),
\* then Ok(true)
CreateUnlogged(c, n) ==
    /\ Idle(c)
    /\ queueOut' = [queueOut EXCEPT ![c] =
                       Returned("create_unlogged", n, n \notin queues, "Ok(true)")]
    /\ queues' = queues \cup {n}
    /\ UNCHANGED <<partConfig, installVars>>

\* create_partitioned_with_cxn: SELECT EXISTS(SELECT * from part_config where
\* parent_table = $1), and Ok(false) if the table is there
CreatePartitionedCheck(c, n) ==
    /\ Idle(c)
    /\ queueOut' = [queueOut EXCEPT ![c] =
                       IF n \in partConfig
                       THEN Returned("create_partitioned", n, FALSE, "Ok(false)")
                       ELSE Checked("create_partitioned", n)]
    /\ UNCHANGED <<queues, partConfig, installVars>>

\* create_partitioned_with_cxn: SELECT * from pgmq.create_partitioned(queue_name=>$1),
\* then Ok(true)
CreatePartitionedRun(c) ==
    /\ queueOut[c].pc = "checked" /\ queueOut[c].op = "create_partitioned"
    /\ \E ok \in BOOLEAN :
         /\ queueOut' = [queueOut EXCEPT ![c] =
                [@ EXCEPT !.pc = "done",
                          !.created = ok /\ queueOut[c].name \notin queues,
                          !.r = IF ok THEN "Ok(true)" ELSE "Err"]]
         /\ queues' = IF ok THEN queues \cup {queueOut[c].name} ELSE queues
         /\ partConfig' = IF ok THEN partConfig \cup {queueOut[c].name} ELSE partConfig
    /\ UNCHANGED installVars

NextQueue ==
    \E c \in Clients :
        \/ \E n \in QueueNames, op \in {"create", "create_unlogged", "create_partitioned"} :
               CallFails(c, op, n)
        \/ \E n \in QueueNames : CreateCheck(c, n)
        \/ CreateRun(c)
        \/ \E n \in QueueNames : CreateUnlogged(c, n)
        \/ \E n \in QueueNames : CreatePartitionedCheck(c, n)
        \/ CreatePartitionedRun(c)

SpecQueue == Init /\ [][NextQueue]_vars

(***************************************************************************)
(* bin/pgmq-cli.rs: the command line tool.  One run of the process: the    *)
(* arguments after the program name and what the database would answer.    *)
(***************************************************************************)
MaxArgs == 2

Urls == {"postgres://a/db", "postgres://b/db"}
CliWords == {"install", "--help"} \cup Urls
NoUrl == ""

CliInputs == [op : {"cli"}, args : SeqsUpTo(CliWords, MaxArgs), reachable : BOOLEAN,
              install : {"Ok", "Err"}]

\* the status of a process whose main thread panics: 101 when the panic
\* unwinds, 134 (SIGABRT) when the build aborts on panic
PanicExits == {101, 134}

InitCli ==
    /\ db = EmptyDb
    /\ advisoryLock = NoProc
    /\ tableLock = NoProc
    /\ installer = [p \in Procs |-> NoInstaller]
    /\ pc = [p \in Procs |-> "idle"]
    /\ calls = [p \in Procs |-> 0]
    /\ tx = [p \in Procs |-> EmptyTx]
    /\ applied = [p \in Procs |-> {}]
    /\ plan = [p \in Procs |-> <<>>]
    /\ idx = [p \in Procs |-> 0]
    /\ stmt = [p \in Procs |-> 0]
    /\ result = [p \in Procs |-> "None"]
    /\ waited = [p \in Procs |-> FALSE]
    /\ lastCommit = NoCommit
    /\ seenLast = [p \in Procs |-> NotRead]
    /\ appliedBy = {}
    /\ origin = [p \in Procs |-> NoOrigin]
    /\ planIn = NoPlanIn
    /\ planOut = NotPlanned
    /\ verIn = NoVerIn
    /\ verOut = NoVerOut
    /\ parseIn = NoParseIn
    /\ parseOut = NoParseOut
    /\ queues = {}
    /\ partConfig = {}
    /\ queueOut = [c \in 1..NumClients |-> NoCall]
    /\ cliIn \in CliInputs
    /\ cliOut = NoCliOut

\* main(): its first statement is panic!("Foo"), so the process ends there
\* whatever the arguments are; the arguments are not parsed, no connection is
\* opened and install_sql is not called (the statements after the panic are
\* unreachable)
Main ==
    /\ cliIn.op = "cli"
    /\ ~ cliOut.done
    /\ \E status \in PanicExits :
           cliOut' = [done |-> TRUE, connected |-> NoUrl, installed |-> FALSE,
                      exit |-> status]
    /\ UNCHANGED <<db, advisoryLock, tableLock, procVars, histVars, planIn, planOut, verIn,
                   verOut, parseVars, queueVars, cliIn>>

SpecCli == InitCli /\ [][Main]_vars

TypeOK ==
    /\ pc \in [Procs -> InTx \cup {"idle", "committed", "aborted", "failed"}]
    /\ advisoryLock \in Procs \cup {NoProc}
    /\ tableLock \in Procs \cup {NoProc}

(***************************************************************************)
(* Fairness: a statement that can run does run, a dropped transaction is   *)
(* rolled back.  Nothing forces a new call or a failure.                   *)
(***************************************************************************)
Step(p) ==
    \/ AcquireAdvisoryLock(p)
    \/ CreateSchema(p)
    \/ CreateTable(p)
    \/ LockTable(p)
    \/ FetchAll(p)
    \/ GetScripts(p)
    \/ ExecStatement(p)
    \/ InsertScript(p)
    \/ Commit(p)
    \/ Rollback(p)

LiveSpec == Spec /\ \A p \in Procs : WF_vars(Step(p))

(***************************************************************************)
(* Properties.                                                             *)
(***************************************************************************)
\* the call of p has read the ledger and its transaction is still open
InCS(p) == seenLast[p] # NotRead /\ pc[p] \in {"fetched", "running", "insert", "commit", "failed"}

\* the parsed rows of the committed ledger
LedgerRows == fetch_all(db.ledger).rows

\* the names of the scripts that committed transactions have run
CommittedNames == {a[1] : a \in appliedBy}

\* the committed transactions that ran the script of that name
RunsOf(n) == {<<a[2], a[3]>> : a \in {b \in appliedBy : b[1] = n}}

\* C1: at most one install transaction at a time is between its read of the
\* ledger and its commit or rollback.
C1_MutualExclusion ==
    \A p, q \in Procs : (p # q /\ InCS(p)) => ~ InCS(q)

\* one call is in the critical section while another waits for the advisory lock
C1_Witness ==
    \E p, q \in Procs : p # q /\ InCS(p) /\ pc[p] = "running" /\ pc[q] = "begun"

\* p and q each made one call with the same build, the only calls so far, and
\* both calls committed
BothInstalled(p, q) ==
    /\ p # q
    /\ calls[p] = 1 /\ calls[q] = 1
    /\ \A r \in Procs \ {p, q} : calls[r] = 0
    /\ installer[p] = installer[q]
    /\ pc[p] = "committed" /\ pc[q] = "committed"

\* C2: when two calls of one build against an empty database both commit, the
\* call that read the ledger first ran the plan; the other read the ledger the
\* first one had committed, got an empty plan and ran nothing; the ledger holds
\* the rows of one plan and every script was run by one transaction.
C2_OneExecution ==
    \A p, q \in Procs :
        BothInstalled(p, q) =>
            \E f, s \in {p, q} :
                /\ f # s
                /\ seenLast[f] = NoCommit
                /\ seenLast[s] = [by |-> f, installer |-> installer[f]]
                /\ Len(plan[f]) > 0
                /\ plan[s] = <<>>
                /\ applied[s] = LedgerRows
                /\ db.ledger = {insert_script(plan[f][i]) : i \in 1..Len(plan[f])}
                /\ appliedBy = {<<plan[f][i].name.original, f, 1>> : i \in 1..Len(plan[f])}

\* both calls committed and one of them had to wait for the other
C2_Witness ==
    \E p, q \in Procs : BothInstalled(p, q) /\ waited[q] /\ plan[q] = <<>> /\ Len(plan[p]) = 2

\* C3: a step that makes install fail returns an error and leaves the committed
\* ledger and schema as they were, as does the rollback that follows; a failed
\* call has committed no run of a script.
C3_FailureAtomic ==
    /\ [](\A p \in Procs :
            pc[p] \in {"failed", "aborted"} =>
                /\ result[p] = "Err"
                /\ \A a \in appliedBy : ~ (a[2] = p /\ a[3] = calls[p]))
    /\ [][\A p \in Procs :
            (pc'[p] \in {"failed", "aborted"} /\ pc'[p] # pc[p]) => db' = db]_vars

\* a call failed after the first script of its plan had run and been recorded, and
\* the database holds nothing of it
C3_Witness ==
    \E p \in Procs :
        /\ pc[p] = "aborted"
        /\ idx[p] = 2
        /\ db.ledger = {}
        /\ db.effects = {}
        /\ ~ db.table

\* the call of p read the ledger right after a committed call of the same build
Repeat(p) == seenLast[p].by \in Procs /\ seenLast[p].installer = installer[p]

\* C4: an install that follows a committed install of the same build computes an
\* empty plan, runs no script, inserts no row, and its commit leaves the ledger
\* and schema as they were.
C4_Idempotent ==
    /\ [](\A p \in Procs :
            (Repeat(p) /\ pc[p] \in {"running", "insert", "commit", "committed"}) =>
                /\ plan[p] = <<>>
                /\ tx[p].ledger = {}
                /\ tx[p].effects = {})
    /\ [][\A p \in Procs :
            (Repeat(p) /\ pc[p] = "commit" /\ pc'[p] = "committed") => db' = db]_vars

\* a process installed twice in sequence and both calls committed
C4_Witness ==
    \E p \in Procs :
        /\ calls[p] = 2
        /\ pc[p] = "committed"
        /\ Repeat(p)
        /\ seenLast[p].by = p
        /\ Cardinality(db.ledger) = 2

\* C5: no script is run by more than one committed transaction, and no name is
\* in the ledger more than once.
C5_AtMostOnce ==
    /\ \A n \in CommittedNames : Cardinality(RunsOf(n)) <= 1
    /\ \A r1, r2 \in db.ledger : r1.name = r2.name => r1 = r2

\* two committed transactions have each run a script
C5_Witness ==
    \E a, b \in appliedBy : <<a[2], a[3]>> # <<b[2], b[3]>>

\* C6: in the committed state, the effects of a script are there if and only if
\* its ledger row is: all of its statements with the row, none without.
C6_EffectsIffRow ==
    /\ \A r \in db.ledger : \A j \in 1..StmtsPerScript : <<r.name, j>> \in db.effects
    /\ \A e \in db.effects : \E r \in db.ledger : r.name = e[1]

\* two scripts are committed with their rows
C6_Witness ==
    /\ Cardinality(db.ledger) = 2
    /\ Cardinality(db.effects) = 2 * StmtsPerScript

\* C7 (as claimed): after an install that returned success, the highest version in
\* the ledger is at least the version of the installer.
C7_ReachesTarget ==
    \A p \in Procs :
        pc[p] = "committed" =>
            /\ LedgerRows # {}
            /\ VersionGe(MaxVersion({r.version : r \in LedgerRows}), installer[p].pgmq_version)

\* C8: a call that had to wait reads the ledger when no other transaction is
\* open past its own read, and what it read is the committed ledger: the rows of
\* every committed run and no others.
C8_ReadsCommitted ==
    \A p \in Procs :
        (waited[p] /\ pc[p] \in {"fetched", "running", "insert", "commit"}) =>
            /\ \A q \in Procs \ {p} : ~ InCS(q) /\ tx[q] = EmptyTx
            /\ applied[p] = LedgerRows
            /\ {r.name : r \in applied[p]} = CommittedNames

\* a call that waited has read a ledger that the call it waited for had filled
C8_Witness ==
    \E p \in Procs :
        /\ waited[p]
        /\ pc[p] = "fetched"
        /\ Cardinality(applied[p]) = 2
        /\ seenLast[p].by \in Procs \ {p}

\* C9: a call waiting for the advisory lock gets it or fails, a call waiting for
\* the table lock gets it or fails, and every call ends committed or aborted
\* with both locks released.
C9_NoDeadlock ==
    \A p \in Procs :
        /\ (pc[p] = "begun") ~> (pc[p] \in {"locked", "failed"})
        /\ (pc[p] = "table") ~> (pc[p] \in {"tablelocked", "failed"})
        /\ (pc[p] \in InTx \cup {"failed"}) ~>
               (pc[p] \in {"committed", "aborted"} /\ advisoryLock # p /\ tableLock # p)

\* every call has ended, the locks are free, and one of the calls had waited
C9_Witness ==
    /\ \A p \in Procs : pc[p] \in {"committed", "aborted"}
    /\ \E p \in Procs : waited[p] /\ pc[p] = "committed"
    /\ advisoryLock = NoProc
    /\ tableLock = NoProc

\* C10: with nothing applied, the planner succeeds when the directory has
\* pgmq.sql, its plan starts with the init script (0.0.0 to the installer's
\* version), and the rest are upgrade scripts whose from is not below that version.
C10_FreshPlan ==
    (planOut.done /\ planIn.applied = {}) =>
        /\ planOut.ok = HasFile(planIn.dir, INIT_SCRIPT_NAME)
        /\ planOut.ok =>
             /\ Len(planOut.scripts) >= 1
             /\ planOut.scripts[1].name = init_script(planIn.pgmq_version)
             /\ \A i \in 2..Len(planOut.scripts) :
                  /\ planOut.scripts[i].name.original # INIT_SCRIPT_NAME
                  /\ VersionGe(planOut.scripts[i].name.from, planIn.pgmq_version)

\* a fresh plan that keeps one upgrade script and leaves out one below the version
C10_Witness ==
    /\ planOut.done /\ planOut.ok
    /\ planIn.applied = {}
    /\ Len(planOut.scripts) = 2
    /\ Len(planIn.dir) = 3

\* the upgrade scripts of the planner's directory, as discovery lists them
Catalog == all_in_directory(planIn.dir)

\* the scripts form one chain of upgrades that ends at the target: each starts
\* where the one before it ends
SingleChain(chain, target) ==
    /\ Len(chain) >= 1
    /\ \A i \in 1..Len(chain) : VersionLt(chain[i].from, chain[i].to)
    /\ \A i \in 1..(Len(chain) - 1) : chain[i].to = chain[i + 1].from
    /\ chain[Len(chain)].to = target

\* the highest version of the planner's applied list (the list is not empty)
HighWater == MaxVersion({a.version : a \in planIn.applied})

\* the applied list has the init script's row and its highest version is the
\* from of a script of a single chain ending at the target
PartialUpgrade ==
    /\ planOut.done
    /\ \E a \in planIn.applied : a.name = INIT_SCRIPT_NAME
    /\ SingleChain(Catalog, planIn.pgmq_version)
    /\ \E i \in 1..Len(Catalog) : Catalog[i].from = HighWater

\* the scripts of the chain from the one that starts at the highest version on
ChainFromHighWater ==
    SubSeq(Catalog, CHOOSE i \in 1..Len(Catalog) : Catalog[i].from = HighWater, Len(Catalog))

\* the names of the planned scripts, in plan order
PlannedNames == [i \in 1..Len(planOut.scripts) |-> planOut.scripts[i].name]

\* C11 (as claimed): when the applied list has the init script's row and its
\* highest version v is the from of a script of a single chain ending at the
\* target, the plan is exactly the chain's scripts from v onward, in chain order.
C11_ChainFromCurrent ==
    PartialUpgrade => (planOut.ok /\ PlannedNames = ChainFromHighWater)

\* C11 (amended): in that case the plan is the chain's scripts from v onward that
\* no applied row names, in chain order, each with the content of its file.
C11_ChainFromCurrentNotApplied ==
    PartialUpgrade =>
        LET Unnamed(n) == \A a \in planIn.applied : a.name # n.original
        IN  /\ planOut.ok
            /\ PlannedNames = SelectSeq(ChainFromHighWater, Unnamed)
            /\ \A i \in 1..Len(planOut.scripts) :
                   planOut.scripts[i].content =
                       GetFile(planIn.dir, planOut.scripts[i].name.original).content

\* the init script is applied at the start of a chain of two scripts, given in
\* the directory in reverse order, and both are planned in chain order
C11_Witness ==
    /\ PartialUpgrade
    /\ Cardinality(planIn.applied) = 1
    /\ Len(Catalog) = 2
    /\ from_static_str(planIn.dir[Len(planIn.dir)].name).v = Catalog[1]
    /\ Len(planOut.scripts) = 2

\* C12: no planned script has a name that a row of the applied list has,
\* whatever the directory, the target version and the applied list.
C12_NoAppliedInPlan ==
    (planOut.done /\ planOut.ok) =>
        \A i \in 1..Len(planOut.scripts) :
            \A a \in planIn.applied : a.name # planOut.scripts[i].name.original

\* a script that starts at the highest applied version is named by a row and left
\* out, and the script after it is planned
C12_Witness ==
    /\ planOut.done /\ planOut.ok
    /\ \E a \in planIn.applied : a.name = INIT_SCRIPT_NAME
    /\ Len(Catalog) = 2
    /\ Catalog[1].from = HighWater
    /\ \E a \in planIn.applied : a.name = Catalog[1].original
    /\ PlannedNames = <<Catalog[2]>>

\* C13 (as claimed): a call whose plan is empty read a ledger whose highest
\* version is at least the installer's version; it runs nothing, inserts nothing
\* and, once committed, has returned success.
C13_EmptyPlanAtTarget ==
    \A p \in Procs :
        (plan[p] = <<>> /\ pc[p] \in {"commit", "committed"}) =>
            /\ applied[p] # {}
            /\ VersionGe(MaxVersion({a.version : a \in applied[p]}), installer[p].pgmq_version)
            /\ tx[p].ledger = {}
            /\ tx[p].effects = {}
            /\ pc[p] = "committed" => result[p] = "Ok"

\* every from of the directory's scripts is below the highest applied version
AllBelowHighWater ==
    /\ planOut.done
    /\ planIn.applied # {}
    /\ \E c \in {Catalog}, h \in {HighWater} :
           \A i \in 1..Len(c) : VersionLt(c[i].from, h)

\* C14 (as claimed): when the applied list is not empty and its highest version
\* is above the from of every script of the directory, the plan is empty; stated
\* for the directories that have pgmq.sql, as an installer's directory does.
C14_FutureVersionEmptyPlan ==
    (AllBelowHighWater /\ HasFile(planIn.dir, INIT_SCRIPT_NAME)) =>
        (planOut.ok /\ planOut.scripts = <<>>)

\* C14 (amended): when moreover the applied list has the init script's row, the
\* planner succeeds with an empty plan.
C14_FutureVersionInitApplied ==
    (AllBelowHighWater /\ \E a \in planIn.applied : a.name = INIT_SCRIPT_NAME) =>
        (planOut.ok /\ planOut.scripts = <<>>)

\* a ledger at 2.0.0, left by a newer installer, and a directory of two scripts
\* from lower versions, planned by an installer of a lower version
C14_Witness ==
    /\ AllBelowHighWater
    /\ \E a \in planIn.applied : a.name = INIT_SCRIPT_NAME
    /\ HighWater = Version(2, 0, 0)
    /\ VersionLt(planIn.pgmq_version, HighWater)
    /\ Len(Catalog) = 2
    /\ planOut.scripts = <<>>

\* two scripts of the directory start at the same version
Branching == \E i, j \in 1..Len(Catalog) : i # j /\ Catalog[i].from = Catalog[j].from

\* C15 (as claimed): the planner rejects a directory in which two scripts share
\* their from version.
C15_BranchRejected ==
    (planOut.done /\ Branching) => ~ planOut.ok

\* the committed state after one successful install of the build inst on the
\* committed state d: the tracking table is there and every script of the plan
\* computed from d's ledger has run in full and has its row
SingleInstall(d, inst) ==
    LET r == get_scripts_internal(inst.pgmq_version, inst.dir, fetch_all(d.ledger).rows)
    IN  [schema  |-> TRUE,
         table   |-> TRUE,
         ledger  |-> d.ledger \cup {insert_script(r.scripts[i]) : i \in 1..Len(r.scripts)},
         effects |-> d.effects \cup
                       {<<r.scripts[i].name.original, r.scripts[i].content[j]>> :
                            i \in 1..Len(r.scripts), j \in 1..StmtsPerScript}]

\* the last call of p committed, the call of p before it failed, and no other
\* process has committed since p began the first of these calls
RetriedAlone(p) == pc[p] = "committed" /\ origin[p].retry /\ origin[p].clean

\* C16: when a call commits after failed calls of the same process, with no commit
\* of another process in between, the committed ledger and schema are those of
\* one successful install on the state before the failed calls, and every script
\* of its plan was run by this call and by no other.
C16_RetrySafe ==
    \A p \in Procs :
        RetriedAlone(p) =>
            /\ db = SingleInstall(origin[p].db, installer[p])
            /\ \A i \in 1..Len(plan[p]) :
                   RunsOf(plan[p][i].name.original) = {<<p, calls[p]>>}

\* a process failed, called again and installed two scripts on the empty database
C16_Witness ==
    \E p \in Procs :
        /\ RetriedAlone(p)
        /\ calls[p] = 2
        /\ origin[p].db = EmptyDb
        /\ Len(plan[p]) = 2
        /\ Cardinality(db.ledger) = 2

\* a row of the committed ledger holds a version text that does not parse
Corrupt == \E r \in db.ledger : ~ from_str(r.version).ok

\* C17: while a ledger row holds a version that does not parse, no call gets
\* past its read of the ledger: none has a plan, has run a statement, has inserted
\* a row or has returned success; the step after the table lock fails the call
\* with an error, and no step changes the committed database.
C17_CorruptLedgerFatal ==
    /\ [](Corrupt =>
            \A p \in Procs :
                /\ pc[p] \notin {"fetched", "running", "insert", "commit", "committed"}
                /\ plan[p] = <<>>
                /\ tx[p].ledger = {}
                /\ tx[p].effects = {}
                /\ result[p] # "Ok"
                /\ pc[p] \in {"failed", "aborted"} => result[p] = "Err")
    /\ [][Corrupt =>
            /\ db' = db
            /\ \A p \in Procs :
                   (pc[p] = "tablelocked" /\ pc'[p] # "tablelocked") =>
                       (pc'[p] = "failed" /\ result'[p] = "Err")]_vars

\* a call holds the table lock and has failed on a ledger of two rows, the
\* second of them corrupt
C17_Witness ==
    \E p \in Procs :
        /\ Corrupt
        /\ Cardinality(db.ledger) = 2
        /\ pc[p] = "failed"
        /\ tableLock = p
        /\ result[p] = "Err"

\* the highest version of a ledger that is not empty
HighestIn(ledger) == MaxVersion({r.version : r \in fetch_all(ledger).rows})

\* C18: no step removes a row of the committed ledger or changes the version
\* recorded under a name, and the highest recorded version never decreases.
C18_AppendOnly ==
    [][/\ db.ledger \subseteq db'.ledger
       /\ \A r \in db.ledger : \A n \in db'.ledger : n.name = r.name => n = r
       /\ db.ledger # {} => VersionGe(HighestIn(db'.ledger), HighestIn(db.ledger))]_vars

\* the ledger got the init script's row from one call and an upgrade script's row
\* from a later one, which raised the highest version to 1.11.0
C18_Witness ==
    /\ Cardinality(db.ledger) = 2
    /\ HighestIn(db.ledger) = Version(1, 11, 0)
    /\ \E a, b \in appliedBy :
           /\ a[1] = INIT_SCRIPT_NAME
           /\ b[1] # INIT_SCRIPT_NAME
           /\ <<a[2], a[3]>> # <<b[2], b[3]>>

\* the order of the triples (major, minor, patch), each segment a number
LexLess(a, b) ==
    \/ a.major < b.major
    \/ a.major = b.major /\ a.minor < b.minor
    \/ a.major = b.major /\ a.minor = b.minor /\ a.patch < b.patch

\* C19: cmp orders the versions as the triples (major, minor, patch) of numbers
\* are ordered: it answers Equal for equal versions only, Less exactly when the
\* triple is below, Greater exactly when the reverse comparison answers Less,
\* and Less is transitive.
C19_TotalOrder ==
    (verOut.done /\ verIn.op = "cmp") =>
        /\ verOut.ab = "Equal" <=> verIn.a = verIn.b
        /\ verOut.ab = "Less" <=> LexLess(verIn.a, verIn.b)
        /\ verOut.ab = "Greater" <=> LexLess(verIn.b, verIn.a)
        /\ verOut.ab = "Greater" <=> verOut.ba = "Less"
        /\ (verOut.ab = "Less" /\ verOut.bc = "Less") => verOut.ac = "Less"

\* 1.2.0, 1.11.1 and 2.0.0 compared: each is below the next
C19_Witness ==
    /\ verOut.done /\ verIn.op = "cmp"
    /\ verIn.a = Version(1, 2, 0) /\ verIn.b = Version(1, 11, 1) /\ verIn.c = Version(2, 0, 0)
    /\ verOut.ab = "Less" /\ verOut.bc = "Less" /\ verOut.ac = "Less"

\* C20: the text of a version parses, and parses to that version.
C20_RoundTrip ==
    (verOut.done /\ verIn.op = "fmt") =>
        (verOut.parsed.ok /\ verOut.parsed.v = verIn.v)

\* the version 2147483647.10.0 was formatted to its fifteen characters and parsed
C20_Witness ==
    /\ verOut.done /\ verIn.op = "fmt"
    /\ verIn.v = Version(2147483647, 10, 0)
    /\ Len(verOut.text) = 15
    /\ verOut.parsed.ok

\* the decimal digits
DecimalDigits == {"0", "1", "2", "3", "4", "5", "6", "7", "8", "9"}

\* the text t from position a to position b is a run of one decimal digit or more
DigitRun(t, a, b) == a <= b /\ \A k \in a..b : t[k] \in DecimalDigits

\* the places <<i, j>> of two dots that cut t into three runs of digits
Cuts(t) ==
    {c \in (1..Len(t)) \X (1..Len(t)) :
        /\ c[1] < c[2] /\ t[c[1]] = "." /\ t[c[2]] = "."
        /\ DigitRun(t, 1, c[1] - 1)
        /\ DigitRun(t, c[1] + 1, c[2] - 1)
        /\ DigitRun(t, c[2] + 1, Len(t))}

\* t is three decimal-digit segments separated by single dots, nothing else
ThreeSegments(t) == Cuts(t) # {}

\* the three segments of such a text
SegmentsOf(t) ==
    LET c == CHOOSE d \in Cuts(t) : TRUE
    IN  <<SubSeq(t, 1, c[1] - 1), SubSeq(t, c[1] + 1, c[2] - 1), SubSeq(t, c[2] + 1, Len(t))>>

\* the digits of a segment without its leading zeros (one zero is left of zero)
RECURSIVE Significant(_)
Significant(seg) ==
    IF Len(seg) > 1 /\ Head(seg) = "0" THEN Significant(Tail(seg)) ELSE seg

\* the number a run of at most nine digits writes
RECURSIVE NumberOf(_)
NumberOf(seg) ==
    IF seg = <<>> THEN 0
    ELSE 10 * NumberOf(SubSeq(seg, 1, Len(seg) - 1))
         + (CHOOSE d \in 0..9 : Digits(d) = <<seg[Len(seg)]>>)

\* the segment writes a number of at most 4294967295 = 42949 * 100000 + 67295
AtMostU32Max(seg) ==
    LET sig == Significant(seg)
        n   == Len(sig)
    IN  \/ n <= 9
        \/ /\ n = 10
           /\ LET hi == NumberOf(SubSeq(sig, 1, 5))
                  lo == NumberOf(SubSeq(sig, 6, 10))
              IN  hi < 42949 \/ (hi = 42949 /\ lo <= 67295)

\* the result of the parse is the version the three segments write
YieldsSegments(r, t) ==
    /\ r.ok
    /\ Digits(r.v.major) = Significant(SegmentsOf(t)[1])
    /\ Digits(r.v.minor) = Significant(SegmentsOf(t)[2])
    /\ Digits(r.v.patch) = Significant(SegmentsOf(t)[3])

\* C21 as stated: the parse of a version succeeds exactly on the texts of three
\* decimal-digit segments separated by single dots, with the version the
\* segments write, and fails on every other text.
C21_ParseThreeSegments ==
    (parseOut.done /\ parseIn.op = "version") =>
        IF ThreeSegments(parseIn.text)
        THEN YieldsSegments(parseOut.r, parseIn.text)
        ELSE ~ parseOut.r.ok

\* C21 (amended): the parse of a version succeeds exactly on the texts of three
\* decimal-digit segments separated by single dots in which each segment
\* writes a number of at most u32::MAX = 4294967295, with the version the
\* segments write; it fails on every other text, a text with a larger segment
\* included.
C21_ParseThreeSegmentsU32 ==
    (parseOut.done /\ parseIn.op = "version") =>
        IF /\ ThreeSegments(parseIn.text)
           /\ \A i \in 1..3 : AtMostU32Max(SegmentsOf(parseIn.text)[i])
        THEN YieldsSegments(parseOut.r, parseIn.text)
        ELSE ~ parseOut.r.ok

\* a text of three digit segments with leading zeros was parsed to 1.2.3
C21_Witness ==
    /\ parseOut.done /\ parseIn.op = "version"
    /\ ThreeSegments(parseIn.text)
    /\ Len(parseIn.text) > 5
    /\ parseOut.r.ok
    /\ parseOut.r.v = Version(1, 2, 3)

\* the text is a valid version: three digit segments, each within u32
ValidVersionText(t) ==
    ThreeSegments(t) /\ \A i \in 1..3 : AtMostU32Max(SegmentsOf(t)[i])

\* the places k of a "--" that cuts the name into pgmq--<from>--<to>.sql with
\* both <from> and <to> valid versions and the literal suffix ".sql"
ExactCuts(t) ==
    {k \in 1..Len(t) :
        /\ HasAt(t, NamePrefix, 1)
        /\ k > Len(NamePrefix)
        /\ HasAt(t, NameSeparator, k)
        /\ HasAt(t, NameSuffix, Len(t) - 3)
        /\ ValidVersionText(SubSeq(t, Len(NamePrefix) + 1, k - 1))
        /\ ValidVersionText(SubSeq(t, k + 2, Len(t) - 4))}

\* C22: the parser of script names accepts a file name only if it has exactly
\* the form pgmq--<from>--<to>.sql, with the literal suffix ".sql" and two valid
\* versions, and the descriptor then holds the name and these two versions;
\* every other name yields an error.
C22_ExactNameOnly ==
    (parseOut.done /\ parseIn.op = "name" /\ parseOut.r.ok) =>
        \E k \in ExactCuts(parseIn.text) :
            /\ parseOut.r.v.original = parseIn.text
            /\ to_string(parseOut.r.v.from) =
                   SubSeq(parseIn.text, Len(NamePrefix) + 1, k - 1)
            /\ to_string(parseOut.r.v.to) = SubSeq(parseIn.text, k + 2, Len(parseIn.text) - 4)

\* the key of the line l of the harness begins with default_version
BeginsWithKey(l) == HasAt(l.key, DefaultVersionKey, 1)

\* the first line of the input that begins with default_version, 0 if none
FirstKeyLine ==
    LET K == {i \in 1..Len(parseIn.lines) : BeginsWithKey(parseIn.lines[i])}
    IN  IF K = {} THEN 0 ELSE CHOOSE i \in K : \A j \in K : i <= j

\* the line l has the form default_version = 'V'
HasVersionForm(l) ==
    /\ l.key = DefaultVersionKey
    /\ \E i \in 1..Len(l.sign) : l.sign[i] = "="
    /\ l.quotes.open = <<"'">> /\ l.quotes.close = <<"'">>

\* C23: get_pgmq_version_from_contents returns V when the first line that
\* begins with default_version has the form default_version = 'V' and V is a
\* valid version; it fails with the missing-key error when no line begins
\* with default_version, and fails with another error when that line has no
\* quoted value or its value is not a valid version.
C23_ResolveVersion ==
    (parseOut.done /\ parseIn.op = "control") =>
        IF FirstKeyLine = 0
        THEN parseOut.r = VersionErr("Version is not present in extension config")
        ELSE LET l == parseIn.lines[FirstKeyLine]
             IN  IF HasVersionForm(l) /\ ValidVersionText(l.value)
                 THEN parseOut.r.ok /\ to_string(parseOut.r.v) = l.value
                 ELSE /\ ~ parseOut.r.ok
                      /\ parseOut.r.error # "Version is not present in extension config"

\* the version was taken from the second line of a file with CR LF line ends,
\* whose first line holds another key
C23_Witness ==
    /\ parseOut.done /\ parseIn.op = "control"
    /\ FirstKeyLine = 2
    /\ parseIn.eol = <<"\r", "\n">>
    /\ parseIn.lines[2].lead # <<>> /\ parseIn.lines[2].trail # <<>>
    /\ parseOut.r.ok
    /\ parseOut.r.v = Version(1, 11, 0)

\* C24: a call of create, create_unlogged or create_partitioned that returns
\* without an error returns Ok(false) if a queue of that name existed when it
\* was called, and returns Ok(true) only if it created the queue.
C24_CreateReportsExisting ==
    \A c \in Clients :
        (queueOut[c].pc = "done" /\ queueOut[c].r # "Err") =>
            /\ queueOut[c].existed => queueOut[c].r = "Ok(false)"
            /\ queueOut[c].r = "Ok(true)" => queueOut[c].created

\* the schema and the tracking table exist for the transaction of p
TableEnsured(p) ==
    /\ db.schema \/ "schema" \in tx[p].ddl
    /\ db.table \/ "table" \in tx[p].ddl

\* the transaction of p is open and has read the ledger
HasReadLedger(p) == seenLast[p] # NotRead /\ pc[p] \in InTx \cup {"failed"}

\* C25: in every install transaction the advisory lock is taken first, before
\* the schema or the tracking table is created or touched; the schema and the
\* table are ensured under that lock; the exclusive table lock is taken after
\* they are ensured; the ledger is read after that, and only by a transaction
\* that holds both locks, which it keeps as long as it is open.
C25_LockOrder ==
    [][\A p \in Procs :
          /\ (advisoryLock' = p /\ advisoryLock # p) =>
                 /\ tx[p] = EmptyTx /\ tx'[p] = EmptyTx
                 /\ tableLock # p /\ tableLock' # p
                 /\ seenLast'[p] = NotRead
          /\ tx'[p].ddl # tx[p].ddl /\ tx'[p].ddl # {} =>
                 /\ advisoryLock = p /\ advisoryLock' = p
                 /\ tableLock # p /\ tableLock' # p
                 /\ seenLast'[p] = NotRead
          /\ (tableLock' = p /\ tableLock # p) =>
                 /\ advisoryLock = p /\ advisoryLock' = p
                 /\ TableEnsured(p)
                 /\ seenLast'[p] = NotRead
          /\ (seenLast'[p] # NotRead /\ seenLast[p] = NotRead) =>
                 /\ advisoryLock = p /\ tableLock = p
                 /\ TableEnsured(p)
          /\ HasReadLedger(p) => advisoryLock = p /\ tableLock = p
    ]_vars

\* a first install has created the schema and the table in its transaction and
\* has read the ledger, holding both locks, while another call waits
C25_Witness ==
    \E p \in Procs :
        /\ pc[p] = "fetched"
        /\ tx[p].ddl = {"schema", "table"}
        /\ advisoryLock = p /\ tableLock = p
        /\ \E q \in Procs \ {p} : pc[q] = "begun"

\* the upgrade scripts of the directory of the planner's input, as descriptors:
\* the file of the name pgmq--<from>--<to>.sql is the script from <from> to <to>
RefCatalog ==
    {[original |-> ScriptFileName(e[1], e[2]), from |-> e[1], to |-> e[2]] :
        e \in {x \in PlanVersions \X PlanVersions :
                  \E i \in 1..Len(planIn.dir) : planIn.dir[i].name = ScriptFileName(x[1], x[2])}}

\* the maximum applied version, the target version if the ledger is empty
RefCurrentVersion ==
    IF planIn.applied = {} THEN planIn.pgmq_version
    ELSE CHOOSE v \in {a.version : a \in planIn.applied} :
             \A a \in planIn.applied : ~ LexLess(v, a.version)

\* the init script together with every catalog script whose from is at least
\* the current version, minus every script whose name is in the ledger
RefPlan ==
    {d \in {[original |-> INIT_SCRIPT_NAME, from |-> Version(0, 0, 0),
             to |-> planIn.pgmq_version]}
           \cup {c \in RefCatalog : ~ LexLess(c.from, RefCurrentVersion)} :
        \A a \in planIn.applied : a.name # d.original}

\* the directory holds the file of every script of the reference plan
RefFilesFound ==
    \A d \in RefPlan : \E i \in 1..Len(planIn.dir) : planIn.dir[i].name = d.original

\* C26: for every target version, directory and applied list the planner
\* returns the reference plan: the init script and every script of the
\* directory whose from is at least the maximum applied version (the target
\* version if nothing is applied), without the scripts whose name is applied,
\* each once, in ascending order of from, each with the content of its file; no
\* script but the init script starts below the current version.  It returns
\* an error exactly when the file of a script of that plan is missing.
C26_PlanIsReference ==
    planOut.done =>
        /\ planOut.ok <=> RefFilesFound
        /\ planOut.ok =>
              /\ {planOut.scripts[i].name : i \in 1..Len(planOut.scripts)} = RefPlan
              /\ Len(planOut.scripts) = Cardinality(RefPlan)
              /\ \A i \in 1..(Len(planOut.scripts) - 1) :
                     ~ LexLess(planOut.scripts[i + 1].name.from, planOut.scripts[i].name.from)
              /\ \A i \in 1..Len(planOut.scripts) :
                     /\ planOut.scripts[i].content =
                            GetFile(planIn.dir, planOut.scripts[i].name.original).content
                     /\ \/ planOut.scripts[i].name.original = INIT_SCRIPT_NAME
                        \/ ~ LexLess(planOut.scripts[i].name.from, RefCurrentVersion)

\* the directory lists two scripts in descending order, one of them is applied
\* together with a row of a lower version, and the plan is the init script
\* and the other script
C26_Witness ==
    /\ planOut.done /\ planOut.ok
    /\ Len(planIn.dir) = 3
    /\ LexLess(from_static_str(planIn.dir[3].name).v.from,
               from_static_str(planIn.dir[2].name).v.from)
    /\ Cardinality(planIn.applied) = 2
    /\ \E a \in planIn.applied : a.name = planIn.dir[3].name
    /\ Len(planOut.scripts) = 2
    /\ planOut.scripts[1].name.original = INIT_SCRIPT_NAME
    /\ planOut.scripts[2].name.original = planIn.dir[2].name

\* the statements of the scripts 1..i of the plan of p that have run when the
\* first k statements of script i have run
RanUpTo(p, i, k) ==
    {<<plan[p][j].name.original, plan[p][j].content[n]>> :
        j \in 1..(i - 1), n \in 1..StmtsPerScript}
    \cup (IF i <= Len(plan[p])
          THEN {<<plan[p][i].name.original, plan[p][i].content[n]>> : n \in 1..k}
          ELSE {})

\* the names of the first i scripts of the plan of p
RecordedUpTo(p, i) == {plan[p][j].name.original : j \in 1..i}

\* C27: the plan is in ascending order of from, with the init script first
\* when it is planned; while install runs the plan, the statements run so far
\* are those of the scripts before the current one and the first statements of
\* the current one, and the rows written are those of the scripts before the
\* current one: a script's row is written once all its statements have run
\* and before the next script starts; the commit comes when every script of
\* the plan has run and is recorded.
C27_RunsPlanInOrder ==
    \A p \in Procs :
        pc[p] \in {"running", "insert", "commit"} =>
            /\ \A i \in 1..(Len(plan[p]) - 1) :
                   ~ LexLess(plan[p][i + 1].name.from, plan[p][i].name.from)
            /\ \A i \in 2..Len(plan[p]) : plan[p][i].name.original # INIT_SCRIPT_NAME
            /\ pc[p] = "running" =>
                   /\ idx[p] \in 1..Len(plan[p])
                   /\ stmt[p] \in 1..Len(plan[p][idx[p]].content)
                   /\ tx[p].effects = RanUpTo(p, idx[p], stmt[p] - 1)
                   /\ {r.name : r \in tx[p].ledger} = RecordedUpTo(p, idx[p] - 1)
            /\ pc[p] = "insert" =>
                   /\ idx[p] \in 1..Len(plan[p])
                   /\ tx[p].effects = RanUpTo(p, idx[p], Len(plan[p][idx[p]].content))
                   /\ {r.name : r \in tx[p].ledger} = RecordedUpTo(p, idx[p] - 1)
            /\ pc[p] = "commit" =>
                   /\ tx[p].effects = RanUpTo(p, Len(plan[p]) + 1, 0)
                   /\ {r.name : r \in tx[p].ledger} = RecordedUpTo(p, Len(plan[p]))

\* the init script has run and is recorded, and the first statement of the
\* second script of the plan has run
C27_Witness ==
    \E p \in Procs :
        /\ pc[p] = "running"
        /\ Len(plan[p]) = 2
        /\ plan[p][1].name.original = INIT_SCRIPT_NAME
        /\ idx[p] = 2 /\ stmt[p] = 2
        /\ Cardinality(tx[p].ledger) = 1
        /\ Cardinality(tx[p].effects) = StmtsPerScript + 1

\* C28: when a statement of a script fails, install stops there: the failed
\* statement leaves no effect, the call is over with the error as its result,
\* and from then on the call runs no statement, writes no row (none for the
\* failed script in particular), keeps its place in the plan and is only
\* rolled back, which leaves the database as it was; a new attempt is a new
\* call of the caller.
C28_StopsAtFailure ==
    [][\A p \in Procs :
          /\ (pc[p] = "running" /\ result[p] # "Err" /\ result'[p] = "Err") =>
                 /\ pc'[p] = "failed"
                 /\ tx'[p] = tx[p]
                 /\ \A r \in tx'[p].ledger \cup db'.ledger :
                        r.name # plan[p][idx[p]].name.original
          /\ (result[p] = "Err" /\ calls'[p] = calls[p]) =>
                 /\ pc[p] \in {"failed", "aborted"}
                 /\ pc'[p] \in {pc[p], "aborted"}
                 /\ result'[p] = "Err"
                 /\ tx'[p].effects \subseteq tx[p].effects
                 /\ tx'[p].ledger \subseteq tx[p].ledger
                 /\ plan'[p] = plan[p] /\ idx'[p] = idx[p] /\ stmt'[p] = stmt[p]
                 /\ pc'[p] # pc[p] => db' = db /\ tx'[p] = EmptyTx
    ]_vars

\* the second statement of the first script of a plan of two has failed: one
\* statement has run, no row is written, and the call has returned the error
C28_Witness ==
    \E p \in Procs :
        /\ pc[p] = "failed" /\ result[p] = "Err"
        /\ Len(plan[p]) = 2
        /\ idx[p] = 1 /\ stmt[p] = 2
        /\ Cardinality(tx[p].effects) = 1
        /\ tx[p].ledger = {}

\* the row is that of the script of that name run by an installer of that
\* target version: the name, and the text of the version after "--" in the
\* name, for the init script the text of the target version
RowOfScript(r, name, target) ==
    /\ r.name = name
    /\ IF name = INIT_SCRIPT_NAME
       THEN r.version = to_string(target)
       ELSE \E f \in InstallVersions, t \in InstallVersions :
                name = ScriptFileName(f, t) /\ r.version = to_string(t)

\* C29: every row install writes has the name of the script it has just
\* executed and that script's to version, for the init script the target
\* version of the installer; so has every committed row.
C29_RowIsNameAndTo ==
    [][/\ \A p \in Procs :
             (tx'[p].ledger # tx[p].ledger /\ tx'[p].ledger # {}) =>
                 /\ tx[p].effects = RanUpTo(p, idx[p], StmtsPerScript)
                 /\ \E r \in tx'[p].ledger :
                        /\ tx'[p].ledger = tx[p].ledger \cup {r}
                        /\ r \notin tx[p].ledger
                        /\ RowOfScript(r, plan[p][idx[p]].name.original,
                                       installer[p].pgmq_version)
       /\ \A r \in db'.ledger :
             \E i \in Installers : RowOfScript(r, r.name, i.pgmq_version)
    ]_vars

\* an install has written the row of the init script and the row of an
\* upgrade script, whose version is the version the script upgrades to
C29_Witness ==
    \E p \in Procs :
        /\ pc[p] = "commit"
        /\ Len(plan[p]) = 2
        /\ tx[p].ledger =
               {[name |-> INIT_SCRIPT_NAME, version |-> to_string(installer[p].pgmq_version)],
                [name |-> plan[p][2].name.original,
                 version |-> to_string(plan[p][2].name.to)]}
        /\ plan[p][2].name.to # plan[p][2].name.from

\* the name matches the pattern pgmq--<from>--<to>.sql
MatchesPattern(t) ==
    /\ HasAt(t, NamePrefix, 1)
    /\ HasAt(t, NameSuffix, Len(t) - 3)
    /\ \E k \in (Len(NamePrefix) + 1)..(Len(t) - 5) : HasAt(t, NameSeparator, k)

\* the name matches the pattern and a version in it is malformed
EmbedsMalformedVersion(t) == MatchesPattern(t) /\ ExactCuts(t) = {}

\* C30: discovery skips the file names that do not match the pattern
\* pgmq--<from>--<to>.sql and returns the scripts of the others; when a name
\* matches the pattern and a version in it is malformed, discovery fails
\* instead of skipping the file.
C30_MalformedVersionFails ==
    (parseOut.done /\ parseIn.op = "dir") =>
        IF \E i \in 1..Len(parseIn.names) : EmbedsMalformedVersion(parseIn.names[i])
        THEN ~ parseOut.ok
        ELSE /\ parseOut.ok
             /\ {s.original : s \in {parseOut.scripts[j] : j \in 1..Len(parseOut.scripts)}}
                    = {parseIn.names[i] : i \in {j \in 1..Len(parseIn.names) :
                                                    MatchesPattern(parseIn.names[j])}}

\* the transaction of p has created the object (the schema or the table)
Created(p, object) == object \in tx[p].ddl

\* the object is committed
Exists(object) == IF object = "schema" THEN db.schema ELSE db.table

\* C31: create_table is idempotent: each of its two CREATE ... IF NOT EXISTS
\* statements can run whenever the call has reached it, creates its object
\* only if it is absent, and leaves the committed state and the rows of the
\* table as they are; however many calls run, one after another or at once,
\* no object is created that exists, and no two open transactions create the
\* same object.
C31_EnsureTableIdempotent ==
    [][\A p \in Procs :
          /\ pc[p] = "locked" => ENABLED CreateSchema(p)
          /\ pc[p] = "schema" => ENABLED CreateTable(p)
          /\ (pc[p] \in {"locked", "schema"} /\ pc'[p] \in {"schema", "table"}) =>
                 /\ db' = db
                 /\ tx'[p].ledger = tx[p].ledger /\ tx'[p].effects = tx[p].effects
                 /\ result'[p] = result[p]
                 /\ (db.schema /\ db.table) => tx'[p].ddl = tx[p].ddl
          /\ \A object \in {"schema", "table"} :
                 Created(p, object) =>
                     /\ ~ Exists(object)
                     /\ \A q \in Procs \ {p} : ~ Created(q, object)
    ]_vars

\* a call that waited for a concurrent install has gone through both
\* statements on a database that holds the table and a row, creating nothing
C31_Witness ==
    \E p \in Procs :
        /\ pc[p] = "table"
        /\ waited[p]
        /\ tx[p].ddl = {}
        /\ db.schema /\ db.table /\ db.ledger # {}

\* a row of the applied list of the planner's input is named pgmq.sql
InitRecorded == \E a \in planIn.applied : a.name = INIT_SCRIPT_NAME

\* the init script is in the plan
InitPlanned ==
    \E i \in 1..Len(planOut.scripts) : planOut.scripts[i].name.original = INIT_SCRIPT_NAME

\* C32: the init script is in the plan if and only if no row of the applied
\* list is named pgmq.sql, whatever the current version is, so also for an
\* applied list that is not empty and lacks that row; the planner fails only
\* when the init script is due and its file is missing.
C32_InitIffNotRecorded ==
    planOut.done =>
        /\ planOut.ok => (InitPlanned <=> ~ InitRecorded)
        /\ planOut.ok =>
               \A i \in 1..Len(planOut.scripts) :
                   planOut.scripts[i].name.original = INIT_SCRIPT_NAME =>
                       /\ i = 1
                       /\ planOut.scripts[i].name.to = planIn.pgmq_version
        /\ ~ planOut.ok => (~ InitRecorded /\ ~ HasFile(planIn.dir, INIT_SCRIPT_NAME))

\* rows of two upgrade scripts are applied, the higher of their versions is
\* neither the target nor 0.0.0, no row is named pgmq.sql, and the init
\* script is planned
C32_Witness ==
    /\ planOut.done /\ planOut.ok
    /\ Cardinality(planIn.applied) = 2
    /\ ~ InitRecorded
    /\ RefCurrentVersion \notin {planIn.pgmq_version, Version(0, 0, 0)}
    /\ LexLess(planIn.pgmq_version, RefCurrentVersion)
    /\ InitPlanned

\* the version of the database when the first script of the directory in the
\* plan of p starts: the target version right after the init script, else the
\* highest version of the ledger the call read
VersionBefore(p) ==
    IF plan[p][1].name.original = INIT_SCRIPT_NAME \/ applied[p] = {}
    THEN installer[p].pgmq_version
    ELSE MaxVersion({a.version : a \in applied[p]})

\* the scripts of the plan of p that have started
Started(p) == IF pc[p] = "commit" THEN 1..Len(plan[p]) ELSE 1..idx[p]

\* C33: install executes a script of the directory only against the version
\* the script starts from: the first one executed starts from the version of
\* the database at that point, and each later one from the version the
\* script before it leads to.
C33_NoVersionGap ==
    \A p \in Procs :
        pc[p] \in {"running", "insert", "commit"} =>
            \A i \in Started(p) :
                plan[p][i].name.original # INIT_SCRIPT_NAME =>
                    plan[p][i].name.from =
                        (IF i = 1 \/ plan[p][i - 1].name.original = INIT_SCRIPT_NAME
                         THEN VersionBefore(p)
                         ELSE plan[p][i - 1].name.to)

\* the process was run as `pgmq-cli install <url>` against a database that
\* accepts the connection
InstallRun ==
    /\ cliIn.op = "cli"
    /\ Len(cliIn.args) = 2
    /\ cliIn.args[1] = "install"
    /\ cliIn.args[2] \in Urls
    /\ cliIn.reachable

\* C34: pgmq-cli run with the subcommand install and a database URL connects
\* to that database and calls install_sql on it; the process exits with
\* status 1 when install_sql returns an error and ends normally (status 0)
\* when it succeeds.
C34_CliInstalls ==
    (InstallRun /\ cliOut.done) =>
        /\ cliOut.connected = cliIn.args[2]
        /\ cliOut.installed
        /\ cliIn.install = "Err" => cliOut.exit = 1
        /\ cliIn.install = "Ok" => cliOut.exit = 0

====
